---- MODULE Spec2Model ----
(***************************************************************************)
(* Request pipeline of KaitenClient (src/kaiten_client.py): the sliding    *)
(* rate window, the retry loop of _request and its status classification,  *)
(* the list-returning facade operations built on it, and the life of the    *)
(* client's HTTP session (initialize, close, cancellation of a call).       *)
(*                                                                          *)
(* Concurrency is asyncio's: one coroutine runs at a time and another may   *)
(* run only while it is suspended in an await.  Each action below is the    *)
(* code one call runs between two suspension points.  Time is the event     *)
(* loop's monotonic clock, counted in ticks of 1/TicksPerSec second.        *)
(***************************************************************************)
EXTENDS Integers, Sequences, FiniteSets, TLC

VARIABLES
    clock,           \* asyncio.get_event_loop().time(), in ticks
    request_times,   \* KaitenClient._request_times
    session,         \* KaitenClient.session: {} for None, else {id of the open session}
    is_initialized,  \* KaitenClient._is_initialized
    opened,          \* number of ClientSession objects created so far
    closes,          \* per session created: how many times its close() was called
    closing,         \* number of close() coroutines suspended in session.close()
    made,            \* number of calls made on the client so far
    rejected,        \* number of HTTP 429 responses the service has given so far
    pc,              \* per call: where the coroutine is suspended
    req,             \* per call: the facade operation and the endpoint it asks for
    wake,            \* per call: the time its pending asyncio.sleep ends
    attempt,         \* per call: loop variable attempt of _request
    last,            \* per call: what the latest transport attempt gave
    outcome,         \* per call: what _request returned or raised
    result,          \* per call: what the facade operation returned or raised
    sent,            \* per call: transport attempts started (session.request calls)
    stamps,          \* per call: timestamps it appended to the rate window
    slept,           \* per call: the backoff sleeps so far: after what ("429", "exc":
                     \*   session.request raised, "http": reading the body raised), and
                     \*   the seconds passed to asyncio.sleep
    history,         \* every timestamp ever appended to the rate window, in order
    given,           \* the arguments a construction or a URL is made from
    built,           \* what was made from them: credentials, base URL, request URL
    server,          \* the remote service's store of resources
    obj,             \* the domain object the caller holds: class, _id and _data
    wire             \* the request of the latest call: method, path, headers, body

vars == <<clock, request_times, session, is_initialized, opened, closes, closing, made,
          rejected, pc, req, wake, attempt, last, outcome, result, sent, stamps, slept,
          history, given, built, server, obj, wire>>

callVars == <<pc, req, wake, attempt, last, outcome, result, sent, stamps, slept>>

dataVars == <<given, built, server, obj, wire>>

-----------------------------------------------------------------------------
(* Bounds of the model *)

TicksPerSec == 2        \* clock resolution: ticks per second
MaxSecs == 2            \* the clock stops after this many seconds
MaxCalls == 4           \* calls made on the client in all
Max429 == 1             \* HTTP 429 responses the service gives the concurrent callers
MaxSessions == 2        \* ClientSession objects one client creates in all
MaxClosers == 2         \* close() coroutines suspended at the same time

MaxClock == MaxSecs * TicksPerSec

(* Program constants *)

MAX_RETRIES == 3
RETRY_DELAY == 1
LIMIT_PER_SEC == 3
INTERVAL == 1
DEFAULT_RETRY_AFTER == 1

None == "None"

Ticks(seconds) == seconds * TicksPerSec

-----------------------------------------------------------------------------
(* JSON values.  Every value is a record of one shape: t is its type, elems  *)
(* the elements of a list (or of the items field of an object), keys the     *)
(* fields an object has.  An element stands for the mapping of one resource. *)

JNull == [t |-> "null", elems |-> <<>>, keys |-> {}]
JList(xs) == [t |-> "list", elems |-> xs, keys |-> {}]
JEnvelope(xs) == [t |-> "obj", elems |-> xs, keys |-> {"items", "total"}]
JObject == [t |-> "obj", elems |-> <<>>, keys |-> {"id", "title"}]

JsonValues == {JNull, JList(<<>>), JList(<<1, 2>>), JEnvelope(<<2, 1>>), JObject}

(* A response body: JSON text with a JSON content type, a body served with   *)
(* another content type, or a JSON content type over text that is not JSON.  *)
JsonBody(v) == [kind |-> "json", val |-> v]
HtmlBody == [kind |-> "not_json_type", val |-> JNull]
BrokenBody == [kind |-> "invalid_json", val |-> JNull]

-----------------------------------------------------------------------------
(* Exceptions (src/exceptions.py) *)

ExceptionBase(cls) ==
    CASE cls = "KaitenNotFoundError" -> "KaitenApiError"
      [] cls = "KaitenValidationError" -> "KaitenApiError"
      [] cls = "KaitenAuthenticationError" -> "KaitenApiError"
      [] cls = "KaitenPermissionError" -> "KaitenApiError"
      [] cls = "KaitenRateLimitError" -> "KaitenApiError"
      [] cls = "KaitenServerError" -> "KaitenApiError"
      [] cls = "KaitenConnectionError" -> "KaitenApiError"
      [] cls = "KaitenTimeoutError" -> "KaitenApiError"
      [] cls = "KaitenApiError" -> "Exception"
      [] cls = "ContentTypeError" -> "ClientError"
      [] cls = "ClientConnectorError" -> "ClientError"
      [] cls = "ClientError" -> "Exception"
      [] cls = "CancelledError" -> "BaseException"
      [] cls = "Exception" -> "BaseException"
      [] OTHER -> "Exception"

RECURSIVE IsInstance(_, _)
IsInstance(cls, base) ==
    IF cls = base THEN TRUE
    ELSE IF cls = "BaseException" THEN FALSE
    ELSE IsInstance(ExceptionBase(cls), base)

(* What of a response an exception message is formatted from: the status    *)
(* (a set, empty when the message has none) and the body as the code read it:*)
(* how is "text" for response.text(), "json" for the value of                *)
(* response.json(), None when the message has no body in it.                  *)
Detail(status, how, val) == [status |-> status, how |-> how, val |-> val]
NoDetail == Detail({}, None, JNull)

(* What a call gives its caller.  kind is "pending", "return" or "raise".    *)
(* An optional attribute is a set: empty for None, else holding its value.    *)
Pending ==
    [kind |-> "pending", cls |-> None, status_code |-> {}, fmt |-> None,
     arg |-> None, retry_after |-> {}, value |-> JNull, detail |-> NoDetail]

Return(v) == [Pending EXCEPT !.kind = "return", !.value = v]

Raise(cls, status_code, fmt, arg) ==
    [Pending EXCEPT !.kind = "raise", !.cls = cls, !.status_code = status_code,
                    !.fmt = fmt, !.arg = arg]

(* KaitenApiError.__init__(message, status_code=None, response_data=None) *)
KaitenApiError(fmt, arg) == Raise("KaitenApiError", {}, fmt, arg)

(* KaitenNotFoundError.__init__ passes status_code=404 to the base class *)
KaitenNotFoundError(fmt, arg) == Raise("KaitenNotFoundError", {404}, fmt, arg)

(* KaitenValidationError.__init__ passes status_code=422 to the base class *)
KaitenValidationError(fmt, arg) == Raise("KaitenValidationError", {422}, fmt, arg)

(* The exception exc with a message formatted from detail *)
WithDetail(exc, detail) == [exc EXCEPT !.detail = detail]

(* An exception that is not one of src/exceptions.py and escapes _request *)
Escapes(cls) == Raise(cls, {}, None, None)

-----------------------------------------------------------------------------
(* Responses of the remote service, as one transport attempt sees them *)

(* The Retry-After header: absent, or present with a text of characters *)
NoHeader == [present |-> FALSE, text |-> <<>>]
Header(text) == [present |-> TRUE, text |-> text]

HttpResponse(status, header, body) ==
    [type |-> "http", status |-> status, exc |-> None, retry_after |-> header,
     body |-> body]

(* session.request raising instead of giving a response *)
TransportError(cls) ==
    [type |-> "exc", status |-> 0, exc |-> cls, retry_after |-> NoHeader,
     body |-> HtmlBody]

NoResponse == [type |-> "none", status |-> 0, exc |-> None, retry_after |-> NoHeader,
               body |-> HtmlBody]

Digits == {"0", "1", "2", "3", "4", "5", "6", "7", "8", "9"}

DigitValue(ch) ==
    CASE ch = "0" -> 0 [] ch = "1" -> 1 [] ch = "2" -> 2 [] ch = "3" -> 3
      [] ch = "4" -> 4 [] ch = "5" -> 5 [] ch = "6" -> 6 [] ch = "7" -> 7
      [] ch = "8" -> 8 [] ch = "9" -> 9

RECURSIVE DecimalValue(_)
DecimalValue(text) ==
    IF text = <<>> THEN 0
    ELSE 10 * DecimalValue(SubSeq(text, 1, Len(text) - 1)) + DigitValue(text[Len(text)])

(* float(text) on a text of digits and letters: a number, or ValueError *)
ParseFloat(text) ==
    IF text # <<>> /\ \A i \in 1..Len(text) : text[i] \in Digits
    THEN [ok |-> TRUE, val |-> DecimalValue(text)]
    ELSE [ok |-> FALSE, val |-> 0]

(* RetryAfterDelay with the fixed retry delay added to the wait *)
RetryAfterDelay_plus(header) ==
    LET retry_after == IF header.present THEN header.text ELSE <<"1">>
        parsed == ParseFloat(retry_after)
    IN  (IF parsed.ok THEN parsed.val ELSE DEFAULT_RETRY_AFTER) + RETRY_DELAY

(* Lines 152-156: the delay, in seconds, that _request sleeps after a 429 *)
RetryAfterDelay(header) ==
    LET retry_after == IF header.present THEN header.text ELSE <<"1">>
        parsed == ParseFloat(retry_after)
    IN  IF parsed.ok THEN parsed.val ELSE DEFAULT_RETRY_AFTER

-----------------------------------------------------------------------------
(* The body of the "async with" block of _request, lines 150-181: what one   *)
(* HTTP response leads to.  act is "retry_429" (sleep, clear the window, go  *)
(* on), "client_error" (an aiohttp.ClientError was raised inside the block   *)
(* and the except clause of line 183 takes it) or "done" (out is returned or *)
(* raised).                                                                   *)

Branch(act, out) == [act |-> act, out |-> out]

(* await response.json(): the value ("value"), ContentTypeError (an           *)
(* aiohttp.ClientError) when the content type is not JSON, or                *)
(* json.JSONDecodeError (a ValueError) when the text is not JSON.            *)
ResponseJson(body) ==
    CASE body.kind = "json" -> Branch("value", Return(body.val))
      [] body.kind = "not_json_type" -> Branch("client_error", Pending)
      [] body.kind = "invalid_json" -> Branch("done", Escapes("JSONDecodeError"))

(* await response.text(): the characters of the body, whatever its content   *)
(* type and whether or not they are JSON; the content type is not part of it.*)
ResponseText(body) == Detail({}, "text", body.val)

(* OnNotFound with a 404 handled like a transport error *)
OnNotFound_retry(endpoint) == Branch("client_error", Pending)

(* Lines 169-170 *)
OnNotFound(endpoint) ==
    Branch("done", KaitenNotFoundError("Resource not found: {endpoint}", endpoint))

(* Lines 171-173 *)
OnValidation(body) ==
    LET error_data == ResponseJson(body)
    IN  IF error_data.act = "value"
        THEN Branch("done",
                 WithDetail(KaitenValidationError("Validation error: {error_data}", "error_data"),
                            Detail({}, "json", error_data.out.value)))
        ELSE error_data

(* OnApiError with the status left out of the message *)
OnApiError_nostatus(status, body) ==
    Branch("done",
        WithDetail(KaitenApiError("API error: {error_data}", "error_data"), ResponseText(body)))

(* Lines 174-176 *)
OnApiError(status, body) ==
    LET error_data == ResponseText(body)
    IN  Branch("done",
            WithDetail(KaitenApiError("API error {status}: {error_data}", "error_data"),
                       [error_data EXCEPT !.status = {status}]))

(* OnSuccess without the test for 204 *)
OnSuccess_no204(status, body) ==
    LET json == ResponseJson(body)
    IN  IF json.act = "value" THEN Branch("done", json.out) ELSE json

(* Lines 178-181 *)
OnSuccess(status, body) ==
    IF status = 204 THEN Branch("done", Return(JNull))
    ELSE LET json == ResponseJson(body)
         IN  IF json.act = "value" THEN Branch("done", json.out) ELSE json

StatusBranch(response, endpoint) ==
    IF response.status = 429 THEN Branch("retry_429", Pending)
    ELSE IF response.status = 404 THEN OnNotFound(endpoint)
    ELSE IF response.status = 422 THEN OnValidation(response.body)
    ELSE IF response.status >= 400 THEN OnApiError(response.status, response.body)
    ELSE OnSuccess(response.status, response.body)

(* Lines 147-149 and 183: one transport attempt.  session.request either     *)
(* raises (an aiohttp.ClientError goes to the except clause, anything else   *)
(* escapes) or gives a response for the block above.                          *)
AttemptBranch(response, endpoint) ==
    IF response.type = "exc"
    THEN IF IsInstance(response.exc, "ClientError")
         THEN Branch("client_error", Pending)
         ELSE Branch("done", Escapes(response.exc))
    ELSE StatusBranch(response, endpoint)

(* AttemptsRemain giving up one attempt early *)
AttemptsRemain_early(n) == n + 1 < MAX_RETRIES

(* AttemptsRemain allowing one attempt more *)
AttemptsRemain_more(n) == n <= MAX_RETRIES

(* Lines 164 and 184: the test that lets the loop go on to another attempt *)
AttemptsRemain(n) == n < MAX_RETRIES

(* Lines 166-167 *)
RateLimitExhausted ==
    KaitenApiError("Rate limit exceeded after {retries} retries", "3")

(* Lines 187-188 *)
RetriesExhausted ==
    KaitenApiError("HTTP client error after {retries} retries: {e}", "3")

-----------------------------------------------------------------------------
(* List-returning facade operations: what each makes of the payload that     *)
(* _request returned.  Each element of the payload is wrapped in the domain  *)
(* class of the operation; "dict" marks the operations that return the       *)
(* mappings as they are.                                                      *)

FacadePending == [kind |-> "pending", cls |-> None, items |-> <<>>]
Wrapped(cls, datas) == [kind |-> "return", cls |-> cls, items |-> datas]
FacadeRaise(cls) == [kind |-> "raise", cls |-> cls, items |-> <<>>]

(* response if isinstance(response, list) else response.get('items', []) ;   *)
(* None has no attribute get.                                                 *)
ListOrItems(cls, response) ==
    IF response.t = "list" THEN Wrapped(cls, response.elems)
    ELSE IF response.t = "null" THEN FacadeRaise("AttributeError")
    ELSE IF "items" \in response.keys THEN Wrapped(cls, response.elems)
    ELSE Wrapped(cls, <<>>)

get_cards(response) == ListOrItems("Card", response)
get_card_comments(response) == ListOrItems("Comment", response)
get_card_members(response) == ListOrItems("Member", response)
get_card_files(response) == ListOrItems("File", response)
get_tags(response) == ListOrItems("Tag", response)
get_spaces(response) == ListOrItems("Space", response)
get_space_users(response) == ListOrItems("dict", response)
get_company_users(response) == ListOrItems("dict", response)
get_boards(response) == ListOrItems("Board", response)
get_columns(response) == ListOrItems("Column", response)
get_lanes(response) == ListOrItems("Lane", response)
get_property_select_values(response) == ListOrItems("dict", response)

(* [Property(client=self, data=item) for item in data]: iterating a mapping  *)
(* gives its keys, and KaitenObject.__init__ calls data.get('id') on each.    *)
get_custom_properties(data) ==
    IF data.t = "list" THEN Wrapped("Property", data.elems)
    ELSE IF data.t = "null" THEN FacadeRaise("TypeError")
    ELSE IF data.keys = {} THEN Wrapped("Property", <<>>)
    ELSE FacadeRaise("AttributeError")

ListOps ==
    {"get_cards", "get_card_comments", "get_card_members", "get_card_files",
     "get_tags", "get_spaces", "get_space_users", "get_company_users", "get_boards",
     "get_columns", "get_lanes", "get_property_select_values", "get_custom_properties"}

(* The endpoint each operation asks for (ids filled in with 1) *)
EndpointOf(op) ==
    CASE op = "get_cards" -> "/cards"
      [] op = "get_card_comments" -> "/cards/1/comments"
      [] op = "get_card_members" -> "/cards/1/members"
      [] op = "get_card_files" -> "/cards/1/files"
      [] op = "get_tags" -> "/tags"
      [] op = "get_spaces" -> "/spaces"
      [] op = "get_space_users" -> "/spaces/1/users"
      [] op = "get_company_users" -> "/company/users"
      [] op = "get_boards" -> "/spaces/1/boards"
      [] op = "get_columns" -> "/boards/1/columns"
      [] op = "get_lanes" -> "/boards/1/lanes"
      [] op = "get_property_select_values" -> "/company/custom-properties/1/select-values"
      [] op = "get_custom_properties" -> "/company/custom-properties"

-----------------------------------------------------------------------------
(* Configuration: src/config.py.  A text is a sequence of characters, an     *)
(* optional value a set with at most one element ({} is None).               *)

MaxLen == 3
MaxSlashes == 2
MaxParams == 2

Whitespace == {" "}

HTTPS_PREFIX == <<"h", "t", "t", "p", "s", ":", "/", "/">>
HTTP_PREFIX == <<"h", "t", "t", "p", ":", "/", "/">>
KAITEN_SUFFIX == <<".", "k", "a", "i", "t", "e", "n", ".", "r", "u">>
API_VERSION == <<"v", "1">>

(* str.lstrip / str.rstrip / str.strip *)
RECURSIVE lstrip(_, _)
lstrip(s, chars) ==
    IF s # <<>> /\ Head(s) \in chars THEN lstrip(Tail(s), chars) ELSE s

RECURSIVE rstrip(_, _)
rstrip(s, chars) ==
    IF s # <<>> /\ s[Len(s)] \in chars
    THEN rstrip(SubSeq(s, 1, Len(s) - 1), chars)
    ELSE s

(* strip leaving the text as it is *)
strip_none(s) == s

strip(s) == rstrip(lstrip(s, Whitespace), Whitespace)

startswith(s, prefix) ==
    Len(s) >= Len(prefix) /\ SubSeq(s, 1, Len(prefix)) = prefix

(* endswith that never finds the suffix *)
endswith_never(s, suffix) == FALSE

endswith(s, suffix) ==
    Len(s) >= Len(suffix) /\ SubSeq(s, Len(s) - Len(suffix) + 1, Len(s)) = suffix

(* str.replace(old, ""): every occurrence of old, left to right, is removed *)
RECURSIVE replace(_, _)
replace(s, old) ==
    IF s = <<>> THEN <<>>
    ELSE IF startswith(s, old) THEN replace(SubSeq(s, Len(old) + 1, Len(s)), old)
    ELSE <<Head(s)>> \o replace(Tail(s), old)

(* What a constructor or a function of the configuration gives: a value or   *)
(* an exception.                                                              *)
Made(v) == [kind |-> "return", cls |-> None, value |-> v]
Failed(cls) == [kind |-> "raise", cls |-> cls, value |-> {}]

(* KaitenConfig.get_base_url, lines 55-68 *)
get_base_url(domain) ==
    IF domain = <<>>
    THEN Failed("ValueError")
    ELSE LET stripped == rstrip(replace(replace(strip(domain), HTTPS_PREFIX), HTTP_PREFIX),
                                {"/"})
             full == IF ~endswith(stripped, KAITEN_SUFFIX)
                     THEN stripped \o KAITEN_SUFFIX
                     ELSE stripped
         IN  Made(HTTPS_PREFIX \o full \o <<"/", "a", "p", "i", "/">> \o API_VERSION)

(* KaitenCredentials.__init__, lines 74-81 *)
KaitenCredentials(domain, token) ==
    IF domain = <<>> \/ strip(domain) = <<>> THEN Failed("ValueError")
    ELSE IF token = <<>> \/ strip(token) = <<>> THEN Failed("ValueError")
    ELSE Made([_domain |-> strip(domain), _token |-> strip(token)])

(* KaitenClient.__init__, lines 62-78: the object exists only when the       *)
(* credentials of line 74 were made.                                          *)
KaitenClient(token, domain) ==
    LET config == KaitenCredentials(domain, token)
    IN  IF config.kind = "raise"
        THEN config
        ELSE Made([token |-> token, domain |-> domain, session |-> {},
                   _request_times |-> <<>>, config |-> config.value,
                   _is_initialized |-> FALSE])

(* str(value) in the f-string of line 145 *)
PyStr(value) ==
    IF value = {} THEN <<"N", "o", "n", "e">> ELSE CHOOSE t \in value : TRUE

(* The loop of lines 144-145 over params.items(), in the order given *)
RECURSIVE AppendParams(_, _)
AppendParams(url, params) ==
    IF params = <<>> THEN url
    ELSE LET p == Head(params)
             sep == IF \E i \in 1..Len(url) : url[i] = "?" THEN "&" ELSE "?"
         IN  AppendParams(url \o <<sep>> \o p.key \o <<"=">> \o PyStr(p.value),
                          Tail(params))

(* The URL _request sends to: lines 139-145 *)
RequestUrl(domain, endpoint, params) ==
    LET base == get_base_url(domain)
    IN  IF base.kind = "raise" THEN base
        ELSE Made(AppendParams(base.value \o endpoint, params))

-----------------------------------------------------------------------------
(* Domain objects and the facade operations that make them.  A JSON mapping  *)
(* with values is JMap(f), f giving each key its optional value ({} is       *)
(* null).                                                                     *)

JMap(f) == [t |-> "obj", elems |-> <<>>, keys |-> DOMAIN f, map |-> f]

(* dict.get(key) *)
DictGet(data, key) ==
    IF "map" \in DOMAIN data /\ key \in DOMAIN data.map THEN data.map[key] ELSE {}

(* data[key] = value *)
DictSet(data, key, value) ==
    JMap([k \in DOMAIN data.map \cup {key} |->
            IF k = key THEN value ELSE data.map[k]])

(* KaitenObject.__init__, src/models/base.py lines 27-29 *)
KaitenObject(cls, data) == [cls |-> cls, _id |-> DictGet(data, "id"), _data |-> data]

(* KaitenObject.get, line 49, on an object whose _data may itself be an      *)
(* object: the lookup is handed down to the mapping at the bottom.            *)
RECURSIVE ObjectGet(_, _)
ObjectGet(o, key) ==
    IF "_data" \in DOMAIN o._data THEN ObjectGet(o._data, key)
    ELSE DictGet(o._data, key)

(* _data is a mapping (and not None, a list or an object) *)
IsMapping(data) == "t" \in DOMAIN data /\ data.t = "obj"

ENDPOINT_CARDS == "/cards"
ENDPOINT_CHECKLIST_ITEMS == "/cards/{card_id}/checklists/{checklist_id}/items"
ENDPOINT_CARD_FILES == "/cards/{card_id}/files"

(* The card and the checklist the modelled checklist item belongs to *)
ItemCardId == 1
ItemChecklistId == 1

(* Card(self, data) of lines 403 and 459: None and a list have no get *)
get_card(data) ==
    IF data.t # "obj" THEN FacadeRaise("AttributeError")
    ELSE Wrapped("Card", <<KaitenObject("Card", data)>>)

create_card(card_data) ==
    IF card_data.t # "obj" THEN FacadeRaise("AttributeError")
    ELSE Wrapped("Card", <<KaitenObject("Card", card_data)>>)

(* Line 472: the payload as it is *)
update_card(data) == Wrapped("dict", <<data>>)

(* Lines 476-477 *)
delete_card(data) == Wrapped("bool", <<TRUE>>)

(* Lines 1660-1665: None and a list do not take item_data['card_id'] = ...   *)
update_checklist_item(item_data) ==
    IF item_data.t # "obj" THEN FacadeRaise("TypeError")
    ELSE Wrapped("ChecklistItem",
                 <<KaitenObject("ChecklistItem",
                                DictSet(DictSet(item_data, "card_id", {ItemCardId}),
                                        "checklist_id", {ItemChecklistId}))>>)

(* Lines 1641-1652: only the arguments that are not None go into the body *)
ItemFields == {"text", "sort_order", "checklist_id", "checked", "due_date", "responsible_id"}

(* update_checklist_item's body with every argument passed on, None as null *)
UpdateItemBody_nulls(args) == args

UpdateItemBody(args) == [k \in {f \in DOMAIN args : args[f] # {}} |-> args[k]]

(* ChecklistItem.update, lines 94-138: the keyword arguments it hands to     *)
(* update_checklist_item; remove_responsible=True makes responsible_id None. *)
ItemUpdateArgs(given_args, remove_responsible) ==
    [k \in ItemFields |->
        IF k = "responsible_id" /\ remove_responsible THEN {}
        ELSE IF k \in DOMAIN given_args THEN given_args[k]
        ELSE {}]

(* bool(value) of an optional boolean: None and False are false *)
Truthy(value) == value = {TRUE}

(* new_checked being True whatever the cached value is *)
new_checked_true(checked) == TRUE

(* ChecklistItem.toggle_checked, line 163: not (self.checked or False) *)
new_checked(checked) == ~Truthy(IF Truthy(checked) THEN checked ELSE {FALSE})

(* Checklist.items, checklist.py line 70: self._data.get('items', []) *)
items(o) == IF "items" \in DOMAIN o._data.map THEN o._data.map["items"] ELSE {<<>>}

(* value or []: None (and the empty list) give the empty list *)
OrEmptyList(value) == IF value = {} THEN <<>> ELSE CHOOSE x \in value : TRUE

(* item.get('checked', False) *)
ItemChecked(item) == IF "checked" \in DOMAIN item THEN item["checked"] ELSE {FALSE}

(* Completed counting every item *)
Completed_all(list) == Len(list)

(* Line 198: sum(1 for item in items if item.get('checked', False)) *)
Completed(list) == Cardinality({i \in 1..Len(list) : Truthy(ItemChecked(list[i]))})

(* Lines 199 and 204: round(completed / total * 100, 2), in hundredths, and  *)
(* 0 when there is no item                                                    *)
Percentage(completed, total) ==
    IF total > 0 THEN (completed * 20000 + total) \div (2 * total) ELSE 0

(* Checklist.get_completion_stats, checklist.py lines 189-205 *)
get_completion_stats(o) ==
    LET list == OrEmptyList(items(o))
        total == Len(list)
        completed == Completed(list)
    IN  [total |-> total, completed |-> completed,
         percentage |-> Percentage(completed, total)]

(* Checklist.is_completed, lines 207-215 *)
is_completed(o) ==
    LET list == OrEmptyList(items(o))
    IN  Len(list) > 0 /\ \A i \in 1..Len(list) : Truthy(ItemChecked(list[i]))

(* isinstance(value, KaitenObject) *)
IsKaitenObject(value) == "_data" \in DOMAIN value

(* The id property: base.py line 34 gives the _id taken at construction;     *)
(* Checklist (checklist.py line 26) and ChecklistItem (checklist_item.py     *)
(* line 25) read it from the cached data.                                     *)
ObjectId(o) ==
    IF o.cls \in {"Checklist", "ChecklistItem"} THEN DictGet(o._data, "id") ELSE o._id

(* __eq__ comparing the ids alone *)
eq_anyclass(self, other) == IsKaitenObject(other) /\ ObjectId(self) = ObjectId(other)

(* KaitenObject.__eq__, base.py lines 61-65 *)
eq(self, other) ==
    IF ~IsKaitenObject(other) THEN FALSE
    ELSE ObjectId(self) = ObjectId(other) /\ self.cls = other.cls

(* a == b: the __eq__ of the left operand, or, when that is a value of       *)
(* another kind whose own comparison does not know the right one, the        *)
(* __eq__ of the right operand                                                *)
PyEq(a, b) ==
    IF IsKaitenObject(a) THEN eq(a, b)
    ELSE IF IsKaitenObject(b) THEN eq(b, a)
    ELSE a = b

(* hash() of a class, of None and of a small int, and of a pair of them: the *)
(* hashes fall into a space smaller than the values, so unequal values may   *)
(* share one.                                                                 *)
HashSpace == 4
HashOfClass(cls) ==
    CASE cls = "Card" -> 1 [] cls = "Checklist" -> 2 [] OTHER -> 3
HashOfId(v) == IF v = {} THEN 0 ELSE CHOOSE n \in v : TRUE
HashOfPair(x, y) == (x * 3 + y) % HashSpace

(* KaitenObject.__hash__, lines 67-69 *)
hash(self) == HashOfPair(HashOfClass(self.cls), HashOfId(ObjectId(self)))

(* File(self, result_data) of line 580 *)
upload_file(result_data) ==
    IF result_data.t # "obj" THEN FacadeRaise("AttributeError")
    ELSE Wrapped("File", <<KaitenObject("File", result_data)>>)

ENDPOINT_BOARDS == "/spaces/{space_id}/boards"

(* The parameters of KaitenClient.create_board, lines 819-826, and the       *)
(* keyword arguments Space.create_board passes it, space.py lines 175-180.   *)
create_board_parameters == {"title", "space_id", "description", "columns", "lanes"}
SpaceCreateBoardKeywords == {"title", "space_id", "description", "board_type"}

(* A call with keyword arguments: a keyword that names no parameter of the   *)
(* function raises TypeError before the body of the function starts.          *)
BindKeywords(parameters, keywords) ==
    IF keywords \subseteq parameters THEN "bound" ELSE "TypeError"

(* create_board, lines 840-845: title, columns or [], lanes or [], and the   *)
(* description when it is not empty.                                          *)
CreateBoardBody(title, description) ==
    [k \in {"title", "columns", "lanes"} \cup {f \in {"description"} : description # {}} |->
        IF k = "title" THEN title
        ELSE IF k = "description" THEN description
        ELSE {<<>>}]

(* Board(self, board_data) of line 849 *)
create_board(board_data) ==
    IF board_data.t # "obj" THEN FacadeRaise("AttributeError")
    ELSE Wrapped("Board", <<KaitenObject("Board", board_data)>>)

(* KaitenCredentials.get_headers / get_upload_headers, src/config.py 95-107 *)
Bearer(token) == <<"B", "e", "a", "r", "e", "r", " ">> \o token

get_headers(token) ==
    ("Accept" :> "application/json") @@ ("Content-Type" :> "application/json")
        @@ ("Authorization" :> Bearer(token))

get_upload_headers(token) == "Authorization" :> Bearer(token)

(* The headers of a request: those the session was created with (line 97),   *)
(* overlaid with those given to the request itself (line 575).                *)
RequestHeaders_own(session_headers, headers) == headers

RequestHeaders(session_headers, headers) ==
    [k \in DOMAIN headers \cup DOMAIN session_headers |->
        IF k \in DOMAIN headers THEN headers[k] ELSE session_headers[k]]

(* create_card, lines 438-456: title and column_id, and those of the        *)
(* optional arguments that are not None.                                      *)
CreateCardBody_notitle(title, column_id, optional) ==
    [k \in {"column_id"} \cup {f \in DOMAIN optional : optional[f] # {}} |->
        IF k = "column_id" THEN column_id ELSE optional[k]]

CreateCardBody(title, column_id, optional) ==
    [k \in {"title", "column_id"} \cup {f \in DOMAIN optional : optional[f] # {}} |->
        IF k = "title" THEN title
        ELSE IF k = "column_id" THEN column_id
        ELSE optional[k]]

(* The object whose method or whose caller awaited a facade operation that   *)
(* raised: no method of src/models catches, so nothing of it is assigned.    *)
AfterFailure_clear(o) == [o EXCEPT !._data = JNull]

AfterFailure(o) == o

(* The object the caller holds from now on: the one a facade operation       *)
(* returned.                                                                  *)
Holding(object, o) ==
    [o EXCEPT !.cls = object.cls, !._id = object._id, !._data = object._data]

(* What follows the await of the facade operation op, which gave res for the *)
(* request w: the caller keeps the card create_card or get_card returned     *)
(* (and the observer notes the id of the card made with the arguments it     *)
(* recorded in created);                                                      *)
(* Card.refresh (card.py line 86) and Card.update (line 100) assign what the *)
(* client gave them to _data; ChecklistItem.update (checklist_item.py line   *)
(* 137) assigns the _data of the item it was given (and the observer counts  *)
(* the toggles of the item that went through).                                *)
AfterCall(o, op, res, w) ==
    IF res.kind = "raise" THEN AfterFailure(o)
    ELSE CASE o.method = None /\ op = "create_card" ->
                  [Holding(res.items[1], o) EXCEPT !.created =
                      {[cr EXCEPT !.id = res.items[1]._id] : cr \in @}]
           [] o.method = None /\ op = "get_card" -> Holding(res.items[1], o)
           [] o.method = "refresh" -> [o EXCEPT !._data = res.items[1]]
           [] o.method = "update" -> [o EXCEPT !._data = res.items[1]]
           [] o.method \in {"remove_responsible", "clear_due_date"} ->
                  [o EXCEPT !._data = res.items[1]._data]
           [] o.method = "toggle_checked" ->
                  [o EXCEPT !._data = res.items[1]._data,
                            !.created = {[t EXCEPT !.toggles = @ + 1] : t \in @}]
           [] OTHER -> o

(* The remote service: a store of resources, each under the path it was      *)
(* created at, with the position in the store as its id.  It stores what it  *)
(* is sent: POST adds the body as a new resource, PATCH writes the fields of *)
(* the body over those of the resource, DELETE removes it, and each answers  *)
(* with the resource; what is not there is answered with 404.                 *)
Stored(srv, path, id) ==
    {e \in UNION {srv.store[i] : i \in id \cap (1..Len(srv.store))} : e.path = path}

ServerAnswer(srv, w) ==
    LET found == Stored(srv, w.path, w.id)
        body == IF w.json = {} THEN <<>> ELSE CHOOSE b \in w.json : TRUE
        NotFound == [server |-> srv, response |-> HttpResponse(404, NoHeader, HtmlBody)]
    IN  IF w.method = "POST"
        THEN LET map == [k \in DOMAIN body \cup {"id"} |->
                            IF k = "id" THEN {Len(srv.store) + 1} ELSE body[k]]
             IN  [server |-> [srv EXCEPT !.store = Append(@, {[path |-> w.path, map |-> map]})],
                  response |-> HttpResponse(200, NoHeader, JsonBody(JMap(map)))]
        ELSE IF found = {} THEN NotFound
        ELSE LET e == CHOOSE x \in found : TRUE
                 i == CHOOSE x \in w.id : TRUE
             IN  CASE w.method = "GET" ->
                        [server |-> srv,
                         response |-> HttpResponse(200, NoHeader, JsonBody(JMap(e.map)))]
                   [] w.method = "PATCH" ->
                        LET map == [k \in DOMAIN e.map \cup DOMAIN body |->
                                       IF k \in DOMAIN body THEN body[k] ELSE e.map[k]]
                        IN  [server |-> [srv EXCEPT !.store[i] = {[e EXCEPT !.map = map]}],
                             response |-> HttpResponse(200, NoHeader, JsonBody(JMap(map)))]
                   [] w.method = "DELETE" ->
                        [server |-> [srv EXCEPT !.store[i] = {}],
                         response |->
                             HttpResponse(200, NoHeader, JsonBody(JMap([id |-> {i}])))]

(* upload_file, lines 575-580, on the response of session.post: there is no  *)
(* except clause and no loop around it.                                       *)
UploadOutcome(response) ==
    IF response.type = "exc" THEN Escapes(response.exc)
    ELSE IF response.status >= 400
    THEN KaitenApiError("File upload error {status}: {error_data}", response.status)
    ELSE LET json == ResponseJson(response.body)
         IN  IF json.act = "client_error" THEN Escapes("ContentTypeError") ELSE json.out

(* What the operation gives its caller once _request has ended with out: a   *)
(* failure of the pipeline passes through unchanged.                          *)
FacadeResult(op, out) ==
    IF out.kind = "raise" THEN FacadeRaise(out.cls)
    ELSE CASE op = "get_cards" -> get_cards(out.value)
           [] op = "get_card_comments" -> get_card_comments(out.value)
           [] op = "get_card_members" -> get_card_members(out.value)
           [] op = "get_card_files" -> get_card_files(out.value)
           [] op = "get_tags" -> get_tags(out.value)
           [] op = "get_spaces" -> get_spaces(out.value)
           [] op = "get_space_users" -> get_space_users(out.value)
           [] op = "get_company_users" -> get_company_users(out.value)
           [] op = "get_boards" -> get_boards(out.value)
           [] op = "get_columns" -> get_columns(out.value)
           [] op = "get_lanes" -> get_lanes(out.value)
           [] op = "get_property_select_values" -> get_property_select_values(out.value)
           [] op = "get_custom_properties" -> get_custom_properties(out.value)
           [] op = "get_card" -> get_card(out.value)
           [] op = "create_card" -> create_card(out.value)
           [] op = "update_card" -> update_card(out.value)
           [] op = "delete_card" -> delete_card(out.value)
           [] op = "update_checklist_item" -> update_checklist_item(out.value)
           [] op = "upload_file" -> upload_file(out.value)
           [] op = "create_board" -> create_board(out.value)
           [] OTHER -> Wrapped("payload", out.value.elems)

-----------------------------------------------------------------------------
(* The rate window, lines 123-137 *)

(* Prune keeping every timestamp *)
Prune_none(times, t) == times

(* [t for t in self._request_times if now - t < 1.0] *)
Prune(times, t) == SelectSeq(times, LAMBDA x : t - x < Ticks(INTERVAL))

RECURSIVE SeqMin(_)
SeqMin(times) ==
    IF Len(times) = 1 THEN times[1]
    ELSE LET m == SeqMin(Tail(times))
         IN  IF times[1] < m THEN times[1] ELSE m

(* sleep_time = 1.0 - (now - oldest_request_time) *)
SleepTime(times, t) == Ticks(INTERVAL) - (t - SeqMin(times))

(* WindowFull letting one timestamp more in *)
WindowFull_late(times) == Len(times) > LIMIT_PER_SEC

(* The test of the while loop of line 127 *)
WindowFull(times) == Len(times) >= LIMIT_PER_SEC

(* WindowAfter429 leaving the window as it is *)
WindowAfter429_keep(times) == times

(* Line 162 *)
WindowAfter429(times) == <<>>

-----------------------------------------------------------------------------
(* Actions *)

(* Nothing constructed from arguments, an empty store, no object held and    *)
(* no request made yet.                                                       *)
NoInput == [domain |-> <<>>, token |-> <<>>, endpoint |-> <<>>, params |-> <<>>]
Unmade == [kind |-> "pending", cls |-> None, value |-> {}]
NotBuilt == [client |-> Unmade, base_url |-> Unmade, url |-> Unmade]
NoServer == [store |-> <<>>]
NoObject == [cls |-> None, _id |-> {}, _data |-> JNull, method |-> None,
             before |-> [_id |-> {}, _data |-> JNull], created |-> {}]
NoWire == [method |-> None, path |-> None, id |-> {}, headers |-> <<>>, json |-> {}]

DataInit ==
    /\ given = NoInput
    /\ built = NotBuilt
    /\ server = NoServer
    /\ obj = NoObject
    /\ wire = NoWire

PipelineInit(C) ==
    /\ clock = 0
    /\ request_times = <<>>
    /\ session = {}
    /\ is_initialized = FALSE
    /\ opened = 0
    /\ closes = <<>>
    /\ closing = 0
    /\ made = 0
    /\ rejected = 0
    /\ pc = [c \in C |-> "idle"]
    /\ req = [c \in C |-> [op |-> None, endpoint |-> None]]
    /\ wake = [c \in C |-> 0]
    /\ attempt = [c \in C |-> 0]
    /\ last = [c \in C |-> NoResponse]
    /\ outcome = [c \in C |-> Pending]
    /\ result = [c \in C |-> FacadePending]
    /\ sent = [c \in C |-> 0]
    /\ stamps = [c \in C |-> 0]
    /\ slept = [c \in C |-> <<>>]
    /\ history = <<>>

InitFor(C) == DataInit /\ PipelineInit(C)

(* The call ends: _request returns or raises out, and the facade operation   *)
(* that awaited it runs on to its own end.                                    *)
Finish(c, out) ==
    /\ pc' = [pc EXCEPT ![c] = "done"]
    /\ outcome' = [outcome EXCEPT ![c] = out]
    /\ result' = [result EXCEPT ![c] = FacadeResult(req[c].op, out)]

(* SessionRequest without the refusal of a closed session *)
SessionRequest_unchecked(held, closed) ==
    IF held = {} THEN Branch("done", Escapes("AttributeError"))
    ELSE Branch("exchange", Pending)

(* self.session.request(...) of line 149, on what self.session holds at that *)
(* moment: None has no attribute request; a ClientSession whose close() has  *)
(* been called refuses with RuntimeError("Session is closed"); an open one   *)
(* starts the exchange.  Neither exception is an aiohttp.ClientError, so the *)
(* except clause of line 183 lets it through.                                 *)
SessionRequest(held, closed) ==
    IF held = {} THEN Branch("done", Escapes("AttributeError"))
    ELSE IF \E s \in held : closed[s] > 0 THEN Branch("done", Escapes("RuntimeError"))
    ELSE Branch("exchange", Pending)

(* Lines 139-149: the URL is built and the first attempt starts; the call    *)
(* is suspended in session.request.  Lines 147-149 again for a later one.    *)
StartAttempt(c, n) ==
    /\ attempt' = [attempt EXCEPT ![c] = n]
    /\ LET b == SessionRequest(session', closes')
       IN  IF b.act = "exchange"
           THEN /\ sent' = [sent EXCEPT ![c] = @ + 1]
                /\ pc' = [pc EXCEPT ![c] = "sent"]
                /\ UNCHANGED <<outcome, result>>
           ELSE /\ Finish(c, b.out)
                /\ UNCHANGED sent

(* Lines 123-137 from a reading of the clock: prune, then either sleep until *)
(* the oldest timestamp leaves the window, or record the request start and   *)
(* go on to the first attempt.  (The list of all timestamps ever recorded is *)
(* an observer's, kept by the specification that watches it: Observed.)      *)
AcquireSlot(c) ==
    LET pruned == Prune(request_times, clock)
    IN  IF WindowFull(pruned)
        THEN /\ request_times' = pruned
             /\ pc' = [pc EXCEPT ![c] = "rate_wait"]
             /\ wake' = [wake EXCEPT ![c] =
                             IF SleepTime(pruned, clock) > 0
                             THEN clock + SleepTime(pruned, clock) ELSE clock]
             /\ UNCHANGED <<stamps, sent, attempt, outcome, result>>
        ELSE /\ request_times' = Append(pruned, clock)
             /\ stamps' = [stamps EXCEPT ![c] = @ + 1]
             /\ StartAttempt(c, 1)
             /\ UNCHANGED wake

(* The observer's record of a step of call c: the timestamp c appended in it,*)
(* if it appended one.                                                        *)
Observed(c) ==
    history' = IF stamps'[c] > stamps[c] THEN Append(history, clock) ELSE history

(* initialize creating the session without setting the flag *)
initialize_noflag ==
    /\ session' = {opened + 1}
    /\ opened' = opened + 1
    /\ closes' = Append(closes, 0)
    /\ UNCHANGED is_initialized

(* Lines 94-100, the body of initialize() when the client is not             *)
(* initialized: a new ClientSession, open, is created and held.              *)
initialize ==
    /\ session' = {opened + 1}
    /\ opened' = opened + 1
    /\ closes' = Append(closes, 0)
    /\ is_initialized' = TRUE

(* initialize() awaited by a caller or by __aenter__, lines 94-100: nothing  *)
(* happens on a client that is initialized.                                   *)
Initialize ==
    /\ IF ~is_initialized
       THEN initialize
       ELSE UNCHANGED <<session, opened, closes, is_initialized>>
    /\ UNCHANGED <<clock, request_times, closing, made, rejected, history>>
    /\ UNCHANGED callVars
    /\ UNCHANGED dataVars

(* close() awaited by a caller, lines 107-108: on a client that holds a      *)
(* session and is initialized, session.close() is called on that session and *)
(* the coroutine is suspended in it; otherwise nothing happens.               *)
close ==
    /\ IF session # {} /\ is_initialized
       THEN /\ closes' = [s \in DOMAIN closes |->
                             IF s \in session THEN closes[s] + 1 ELSE closes[s]]
            /\ closing' = closing + 1
       ELSE UNCHANGED <<closes, closing>>
    /\ UNCHANGED <<clock, request_times, session, is_initialized, opened, made,
                   rejected, history>>
    /\ UNCHANGED callVars
    /\ UNCHANGED dataVars

(* __aexit__, lines 85-87: await self.close() *)
aexit == close

(* session.close() is over for one suspended close(): lines 109-111 *)
CloseResume ==
    /\ closing > 0
    /\ closing' = closing - 1
    /\ session' = {}
    /\ is_initialized' = FALSE
    /\ UNCHANGED <<clock, request_times, opened, closes, made, rejected, history>>
    /\ UNCHANGED callVars
    /\ UNCHANGED dataVars

(* OnCancelled taking back the latest timestamp *)
OnCancelled_retract(times) ==
    IF times = <<>> THEN times ELSE SubSeq(times, 1, Len(times) - 1)

(* What lines 113-188 do to the rate window when asyncio.CancelledError is   *)
(* thrown into the coroutine at an await: there is no finally clause, and    *)
(* the only except clause (line 183) is for aiohttp.ClientError.              *)
OnCancelled(times) == times

(* The task awaiting the call is cancelled (asyncio.wait_for timing out, or  *)
(* task.cancel()) while the call is suspended in an await of lines 132, 149, *)
(* 159 or 186: CancelledError comes out of _request.                          *)
Cancel(c) ==
    /\ pc[c] \in {"rate_wait", "sent", "wait_429", "wait_retry"}
    /\ request_times' = OnCancelled(request_times)
    /\ Finish(c, Escapes("CancelledError"))
    /\ UNCHANGED <<clock, session, is_initialized, opened, closes, closing, made,
                   rejected, req, wake, attempt, last, sent, stamps, slept, history>>
    /\ UNCHANGED dataVars

(* A caller awaits a facade operation, which awaits _request (lines 113-137):*)
(* the client is initialized if it is not, then the rate window is consulted.*)
Call(c, op, endpoint) ==
    /\ pc[c] = "idle"
    /\ made' = made + 1
    /\ req' = [req EXCEPT ![c] = [op |-> op, endpoint |-> endpoint]]
    /\ IF ~is_initialized
       THEN initialize
       ELSE UNCHANGED <<session, opened, closes, is_initialized>>
    /\ IF session' = {}
       THEN /\ pc' = [pc EXCEPT ![c] = "done"]
            /\ outcome' = [outcome EXCEPT ![c] = Escapes("RuntimeError")]
            /\ result' = [result EXCEPT ![c] = FacadeRaise("RuntimeError")]
            /\ UNCHANGED <<request_times, stamps, sent, attempt, wake>>
       ELSE AcquireSlot(c)
    /\ UNCHANGED <<clock, closing, rejected, last, slept>>

(* asyncio.sleep(sleep_time) of line 132 is over: lines 134-137 *)
WakeRate(c) ==
    /\ pc[c] = "rate_wait"
    /\ clock >= wake[c]
    /\ UNCHANGED <<session, is_initialized, opened, closes, closing>>
    /\ AcquireSlot(c)
    /\ UNCHANGED <<clock, made, rejected, req, last, slept>>
    /\ UNCHANGED dataVars

(* The transport attempt of a suspended call ends with response: lines       *)
(* 149-188 up to the next await.  (The count of rejections is the service's  *)
(* and is left to the specification that bounds it.)                          *)
Respond(c, response) ==
    /\ pc[c] = "sent"
    /\ last' = [last EXCEPT ![c] = response]
    /\ LET b == AttemptBranch(response, req[c].endpoint)
       IN  CASE b.act = "retry_429" ->
                  LET retry_delay == RetryAfterDelay(response.retry_after)
                  IN  /\ pc' = [pc EXCEPT ![c] = "wait_429"]
                      /\ wake' = [wake EXCEPT ![c] = clock + Ticks(retry_delay)]
                      /\ slept' = [slept EXCEPT ![c] =
                                      Append(@, [after |-> "429", secs |-> retry_delay])]
                      /\ UNCHANGED <<outcome, result>>
             [] b.act = "client_error" ->
                  IF AttemptsRemain(attempt[c])
                  THEN /\ pc' = [pc EXCEPT ![c] = "wait_retry"]
                       /\ wake' = [wake EXCEPT ![c] = clock + Ticks(RETRY_DELAY)]
                       /\ slept' = [slept EXCEPT ![c] =
                                       Append(@, [after |-> response.type, secs |-> RETRY_DELAY])]
                       /\ UNCHANGED <<outcome, result>>
                  ELSE /\ Finish(c, RetriesExhausted)
                       /\ UNCHANGED <<wake, slept>>
             [] b.act = "done" ->
                  /\ Finish(c, b.out)
                  /\ UNCHANGED <<wake, slept>>
    /\ UNCHANGED <<clock, request_times, session, is_initialized, opened, closes,
                   closing, made, req, attempt, sent, stamps, history>>

(* asyncio.sleep(retry_delay) of line 159 is over: lines 162-167, and on to  *)
(* the next attempt when one remains.                                         *)
Wake429(c) ==
    /\ pc[c] = "wait_429"
    /\ clock >= wake[c]
    /\ UNCHANGED <<session, is_initialized, opened, closes, closing>>
    /\ request_times' = WindowAfter429(request_times)
    /\ IF AttemptsRemain(attempt[c])
       THEN StartAttempt(c, attempt[c] + 1)
       ELSE /\ Finish(c, RateLimitExhausted)
            /\ UNCHANGED <<attempt, sent>>
    /\ UNCHANGED <<clock, made, rejected, req, wake, last, stamps, slept, history>>
    /\ UNCHANGED dataVars

(* asyncio.sleep(delay) of line 186 is over: the loop goes on to the next    *)
(* attempt.                                                                   *)
WakeRetry(c) ==
    /\ pc[c] = "wait_retry"
    /\ clock >= wake[c]
    /\ UNCHANGED <<session, is_initialized, opened, closes, closing>>
    /\ StartAttempt(c, attempt[c] + 1)
    /\ UNCHANGED <<clock, request_times, made, rejected, req, wake, last, stamps,
                   slept, history>>
    /\ UNCHANGED dataVars

(* upload_file, lines 545-575, up to the await of session.post: the rate     *)
(* window is neither read nor written, initialize() is not called, and       *)
(* what self.session holds is used as it is.                                  *)
Upload(c) ==
    /\ pc[c] = "idle"
    /\ made' = made + 1
    /\ req' = [req EXCEPT ![c] = [op |-> "upload_file", endpoint |-> ENDPOINT_CARD_FILES]]
    /\ LET b == SessionRequest(session, closes)
       IN  IF b.act = "exchange"
           THEN /\ sent' = [sent EXCEPT ![c] = @ + 1]
                /\ pc' = [pc EXCEPT ![c] = "upload"]
                /\ UNCHANGED <<outcome, result>>
           ELSE /\ Finish(c, b.out)
                /\ UNCHANGED sent
    /\ UNCHANGED <<clock, request_times, session, is_initialized, opened, closes, closing,
                   rejected, wake, attempt, last, stamps, slept>>

(* session.post of an upload ends with response: lines 575-580 *)
UploadRespond(c, response) ==
    /\ pc[c] = "upload"
    /\ last' = [last EXCEPT ![c] = response]
    /\ Finish(c, UploadOutcome(response))
    /\ UNCHANGED <<clock, request_times, session, is_initialized, opened, closes, closing,
                   made, rejected, req, wake, attempt, sent, stamps, slept>>

(* Time passes, up to the tick limit *)
Advance(limit) ==
    /\ clock < limit
    /\ clock' = clock + 1
    /\ UNCHANGED <<request_times, session, is_initialized, opened, closes, closing,
                   made, rejected, history>>
    /\ UNCHANGED callVars
    /\ UNCHANGED dataVars

(* The caller has its result (or exception) and the coroutine is gone: the   *)
(* caller may make its next call.                                             *)
Collect(c) ==
    /\ pc[c] = "done"
    /\ pc' = [pc EXCEPT ![c] = "idle"]
    /\ req' = [req EXCEPT ![c] = [op |-> None, endpoint |-> None]]
    /\ wake' = [wake EXCEPT ![c] = 0]
    /\ attempt' = [attempt EXCEPT ![c] = 0]
    /\ last' = [last EXCEPT ![c] = NoResponse]
    /\ outcome' = [outcome EXCEPT ![c] = Pending]
    /\ result' = [result EXCEPT ![c] = FacadePending]
    /\ sent' = [sent EXCEPT ![c] = 0]
    /\ stamps' = [stamps EXCEPT ![c] = 0]
    /\ slept' = [slept EXCEPT ![c] = <<>>]
    /\ UNCHANGED <<clock, request_times, session, is_initialized, opened, closes,
                   closing, made, rejected, history>>

-----------------------------------------------------------------------------
(* The pipeline: one caller making raw _request calls one after another,     *)
(* each meeting any response.                                                 *)

Caller == {1}

Endpoints == {"/cards/1", "/tags"}

RetryAfterHeaders == {NoHeader, Header(<<"0">>), Header(<<"2">>), Header(<<"x">>)}

Responses ==
    {TransportError("ClientConnectorError"), TransportError("TimeoutError")}
    \cup {HttpResponse(429, h, HtmlBody) : h \in RetryAfterHeaders}
    \cup {HttpResponse(st, NoHeader, HtmlBody) : st \in {204, 401, 404, 422, 500}}
    \cup {HttpResponse(st, NoHeader, b) :
            st \in {200}, b \in {JsonBody(JList(<<1, 2>>)), JsonBody(JObject), HtmlBody, BrokenBody}}
    \cup {HttpResponse(422, NoHeader, b) : b \in {JsonBody(JObject), BrokenBody}}
    \cup {HttpResponse(403, NoHeader, JsonBody(JObject))}

Init == InitFor(Caller)

DoCall ==
    \E c \in Caller, e \in Endpoints :
        made < MaxCalls /\ Call(c, "_request", e) /\ UNCHANGED history /\ UNCHANGED dataVars
DoWakeRate == \E c \in Caller : WakeRate(c) /\ UNCHANGED history
DoRespond == \E c \in Caller, r \in Responses : Respond(c, r) /\ UNCHANGED rejected /\ UNCHANGED dataVars
DoWake429 == \E c \in Caller : Wake429(c)
DoWakeRetry == \E c \in Caller : WakeRetry(c)
DoCollect == \E c \in Caller : Collect(c) /\ UNCHANGED dataVars
Tick == Advance(MaxClock)

Next == DoCall \/ DoWakeRate \/ DoRespond \/ DoWake429 \/ DoWakeRetry \/ DoCollect \/ Tick

Spec == Init /\ [][Next]_vars

-----------------------------------------------------------------------------
(* The rate limiter under concurrency: callers sharing one client, each      *)
(* making one call, answered with success or, a few times, with HTTP 429.    *)

(* One caller more than the limit admits in an interval *)
Callers == 1..(LIMIT_PER_SEC + 1)

(* The concurrent callers are watched for one interval *)
RateMaxClock == Ticks(INTERVAL)

Accepted == HttpResponse(200, NoHeader, JsonBody(JObject))

Rejections == {HttpResponse(429, NoHeader, HtmlBody), HttpResponse(429, Header(<<"0">>), HtmlBody)}

RateInit == InitFor(Callers)

(* Callers are numbered in the order in which they call *)
RateCall ==
    \E c \in Callers :
        /\ \A d \in Callers : d < c => pc[d] # "idle"
        /\ Call(c, "_request", "/cards/1")
        /\ Observed(c)
        /\ UNCHANGED dataVars
RateWakeRate == \E c \in Callers : WakeRate(c) /\ Observed(c)
RateAccept == \E c \in Callers : Respond(c, Accepted) /\ UNCHANGED rejected /\ UNCHANGED dataVars
RateReject ==
    \E c \in Callers, r \in Rejections :
        /\ rejected < Max429
        /\ rejected' = rejected + 1
        /\ Respond(c, r)
        /\ UNCHANGED dataVars
RateWake429 == \E c \in Callers : Wake429(c)
RateTick == Advance(RateMaxClock)

RateNext ==
    RateCall \/ RateWakeRate \/ RateAccept \/ RateReject \/ RateWake429 \/ RateTick

SpecRate == RateInit /\ [][RateNext]_vars

-----------------------------------------------------------------------------
(* Waiting in the rate limiter: the concurrent callers call within the first *)
(* interval, each is answered with success, and they are watched until the   *)
(* last of them is through.  The event loop resumes every coroutine whose    *)
(* sleep is over, each exchange ends, and the loop's clock goes on.          *)

(* Callers enough to fill the window twice and leave one waiting again *)
WaitCallers == 1..(2 * LIMIT_PER_SEC + 1)

(* Each full window holds its waiters for an interval at most *)
WaitMaxClock == RateMaxClock + 3 * Ticks(INTERVAL)

WaitInit == InitFor(WaitCallers)

(* Callers are numbered in the order in which they call *)
WaitCall ==
    \E c \in WaitCallers :
        /\ clock <= RateMaxClock
        /\ \A d \in WaitCallers : d < c => pc[d] # "idle"
        /\ Call(c, "_request", "/cards/1")
        /\ Observed(c)
        /\ UNCHANGED dataVars
WaitWakeRate == \E c \in WaitCallers : WakeRate(c) /\ Observed(c)
WaitAccept ==
    \E c \in WaitCallers : Respond(c, Accepted) /\ UNCHANGED rejected /\ UNCHANGED dataVars
WaitTick ==
    /\ \A c \in WaitCallers :
          /\ pc[c] # "sent"
          /\ pc[c] = "rate_wait" => clock < wake[c]
    /\ Advance(WaitMaxClock)

WaitNext == WaitCall \/ WaitWakeRate \/ WaitAccept \/ WaitTick

SpecWait ==
    /\ WaitInit /\ [][WaitNext]_vars
    /\ WF_vars(WaitWakeRate) /\ WF_vars(WaitAccept) /\ WF_vars(WaitTick)

-----------------------------------------------------------------------------
(* The facade: one caller making list-returning operations one after         *)
(* another, each answered at once with a payload, no content or not found.   *)

FacadeResponses ==
    {HttpResponse(200, NoHeader, JsonBody(v)) : v \in JsonValues}
    \cup {HttpResponse(204, NoHeader, HtmlBody), HttpResponse(404, NoHeader, HtmlBody)}

FacadeCall ==
    \E c \in Caller, op \in ListOps :
        made < MaxCalls /\ Call(c, op, EndpointOf(op)) /\ UNCHANGED history /\ UNCHANGED dataVars
FacadeWakeRate == \E c \in Caller : WakeRate(c) /\ UNCHANGED history
FacadeRespond == \E c \in Caller, r \in FacadeResponses : Respond(c, r) /\ UNCHANGED rejected /\ UNCHANGED dataVars
FacadeCollect == \E c \in Caller : Collect(c) /\ UNCHANGED dataVars
FacadeTick == Advance(MaxClock)

FacadeNext == FacadeCall \/ FacadeWakeRate \/ FacadeRespond \/ FacadeCollect \/ FacadeTick

SpecFacade == Init /\ [][FacadeNext]_vars

-----------------------------------------------------------------------------
(* Termination: one caller making calls one after another, each attempt      *)
(* answered with success, not found, HTTP 429 or a transport error.  The     *)
(* event loop runs every coroutine that is ready: a sleep that is over       *)
(* resumes, the loop's clock goes on, and session.request ends, with a       *)
(* response or an exception, by the total timeout the session was made with  *)
(* (line 96) at the latest.                                                   *)

LiveResponses ==
    {TransportError("ClientConnectorError"), Accepted, HttpResponse(404, NoHeader, HtmlBody)}
    \cup Rejections

(* The longest a call lasts here: the rate-limit wait, then a sleep of a     *)
(* second after each attempt.  (The time an exchange takes is not counted:   *)
(* each is answered within the tick in which it was sent, and a sleep that   *)
(* is over resumes within the tick in which it ended.)                        *)
CallSpan == INTERVAL + MAX_RETRIES * RETRY_DELAY

(* Calls start in the first MaxSecs seconds and are watched to their end *)
LiveMaxClock == MaxClock + Ticks(CallSpan)

LiveCall ==
    \E c \in Caller, e \in Endpoints :
        made < MaxCalls /\ clock <= MaxClock /\ Call(c, "_request", e) /\ UNCHANGED history /\ UNCHANGED dataVars
LiveWakeRate == \E c \in Caller : WakeRate(c) /\ UNCHANGED history
LiveRespond == \E c \in Caller, r \in LiveResponses : Respond(c, r) /\ UNCHANGED rejected /\ UNCHANGED dataVars
LiveWake429 == \E c \in Caller : Wake429(c)
LiveWakeRetry == \E c \in Caller : WakeRetry(c)
LiveCollect == \E c \in Caller : Collect(c) /\ UNCHANGED dataVars
LiveTick ==
    /\ \A c \in Caller :
          /\ pc[c] # "sent"
          /\ pc[c] \in {"rate_wait", "wait_429", "wait_retry"} => clock < wake[c]
    /\ Advance(LiveMaxClock)

LiveNext ==
    LiveCall \/ LiveWakeRate \/ LiveRespond \/ LiveWake429 \/ LiveWakeRetry \/ LiveCollect
    \/ LiveTick

SpecLive ==
    /\ Init /\ [][LiveNext]_vars
    /\ WF_vars(LiveWakeRate) /\ WF_vars(LiveRespond) /\ WF_vars(LiveWake429)
    /\ WF_vars(LiveWakeRetry) /\ WF_vars(LiveTick)

-----------------------------------------------------------------------------
(* The client's life: one caller making calls one after another while other  *)
(* coroutines initialize and close the client, and the caller's task may be  *)
(* cancelled.  Every await is a suspension point.                             *)

(* The client is watched for one interval *)
LifeMaxClock == Ticks(INTERVAL)

LifeResponses ==
    {TransportError("ClientConnectorError"), Accepted, HttpResponse(429, NoHeader, HtmlBody)}

LifeInitialize == (is_initialized \/ opened < MaxSessions) /\ Initialize
LifeClose == closing < MaxClosers /\ close
LifeAExit == closing < MaxClosers /\ aexit
LifeCloseResume == CloseResume
LifeCall ==
    \E c \in Caller :
        /\ made < MaxCalls
        /\ is_initialized \/ opened < MaxSessions
        /\ Call(c, "_request", "/cards/1")
        /\ UNCHANGED history
        /\ UNCHANGED dataVars
LifeWakeRate == \E c \in Caller : WakeRate(c) /\ UNCHANGED history
LifeRespond == \E c \in Caller, r \in LifeResponses : Respond(c, r) /\ UNCHANGED rejected /\ UNCHANGED dataVars
LifeWake429 == \E c \in Caller : Wake429(c)
LifeWakeRetry == \E c \in Caller : WakeRetry(c)
LifeCancel == \E c \in Caller : Cancel(c)
LifeCollect == \E c \in Caller : Collect(c) /\ UNCHANGED dataVars
LifeTick == Advance(LifeMaxClock)

LifeNext ==
    LifeInitialize \/ LifeClose \/ LifeAExit \/ LifeCloseResume \/ LifeCall \/ LifeWakeRate
    \/ LifeRespond \/ LifeWake429 \/ LifeWakeRetry \/ LifeCancel \/ LifeCollect \/ LifeTick

SpecLife == Init /\ [][LifeNext]_vars

-----------------------------------------------------------------------------
(* The configuration: a client is constructed from a domain and a token, the *)
(* base URL is made from the domain, and the URL of a request from the       *)
(* client's domain, an endpoint and query parameters.  The arguments are     *)
(* drawn when the behaviour starts.                                           *)

TextsUpTo(alphabet, n) == UNION {[1..k -> alphabet] : k \in 0..n}

CredentialTexts == TextsUpTo({" ", "a"}, MaxLen)

BareDomains == {<<"d">>, <<"m", "y">>}

Slashes(n) == [i \in 1..n |-> "/"]

DomainForms ==
    {pre \o d \o suf \o Slashes(n) :
        pre \in {<<>>, HTTP_PREFIX, HTTPS_PREFIX}, d \in BareDomains,
        suf \in {<<>>, KAITEN_SUFFIX}, n \in 0..MaxSlashes}

QueryEndpoints == {<<"/", "c">>, <<"/", "c", "?", "x", "=", "1">>}

ParamKeys == {<<"a">>, <<"b">>, <<"c">>}

ParamValues == {{}, {<<"1">>}}

(* params is a dict: its keys are distinct *)
ParamLists ==
    {ps \in UNION {[1..k -> [key : ParamKeys, value : ParamValues]] : k \in 0..MaxParams} :
        \A i, j \in 1..Len(ps) : i # j => ps[i].key # ps[j].key}

ConfigInputs ==
    {[NoInput EXCEPT !.domain = d, !.token = t] : d \in CredentialTexts, t \in CredentialTexts}
    \cup {[NoInput EXCEPT !.domain = d, !.token = <<"t">>] : d \in DomainForms}
    \cup {[domain |-> <<"d">>, token |-> <<"t">>, endpoint |-> e, params |-> ps] :
            e \in QueryEndpoints, ps \in ParamLists}

ConfigInit ==
    /\ PipelineInit(Caller)
    /\ given \in ConfigInputs
    /\ built = NotBuilt
    /\ server = NoServer
    /\ obj = NoObject
    /\ wire = NoWire

(* KaitenClient(token, domain) *)
ConfigConstruct ==
    /\ built.client.kind = "pending"
    /\ built' = [built EXCEPT !.client = KaitenClient(given.token, given.domain)]
    /\ UNCHANGED <<clock, request_times, session, is_initialized, opened, closes, closing,
                   made, rejected, callVars, history, given, server, obj, wire>>

(* KaitenConfig.get_base_url(domain) *)
ConfigBaseUrl ==
    /\ built.base_url.kind = "pending"
    /\ built' = [built EXCEPT !.base_url = get_base_url(given.domain)]
    /\ UNCHANGED <<clock, request_times, session, is_initialized, opened, closes, closing,
                   made, rejected, callVars, history, given, server, obj, wire>>

(* The URL a _request of the constructed client sends to *)
ConfigRequestUrl ==
    /\ built.client.kind = "return"
    /\ built.url.kind = "pending"
    /\ built' = [built EXCEPT !.url = RequestUrl(built.client.value.domain,
                                                 given.endpoint, given.params)]
    /\ UNCHANGED <<clock, request_times, session, is_initialized, opened, closes, closing,
                   made, rejected, callVars, history, given, server, obj, wire>>

ConfigNext == ConfigConstruct \/ ConfigBaseUrl \/ ConfigRequestUrl

SpecConfig == ConfigInit /\ [][ConfigNext]_vars

-----------------------------------------------------------------------------
(* Domain objects: one caller of a constructed client creating, fetching,    *)
(* refreshing, updating and deleting a card, clearing fields of a checklist  *)
(* item and uploading a file, against a service that stores what it is sent  *)
(* and whose exchanges may also fail.                                         *)

MaxStored == 2

(* No call sleeps past this: each attempt but the last of each call may be   *)
(* followed by a sleep of RETRY_DELAY, and a wait for the window ends within *)
(* INTERVAL of the latest call.                                               *)
ObjMaxClock == MaxCalls * MAX_RETRIES * Ticks(RETRY_DELAY)

Titles == {"T", "U"}

ColumnIds == {5}

(* The checklist item the service holds from the start *)
ItemPayload ==
    [id |-> {1}, text |-> {"x"}, due_date |-> {"2026-01-01"}, responsible_id |-> {7}]

ObjFailures ==
    {TransportError("ClientConnectorError"), HttpResponse(500, NoHeader, HtmlBody)}

UploadResponses ==
    ObjFailures \cup {HttpResponse(200, NoHeader, JsonBody(JMap([id |-> {9}])))}

ObjInit ==
    /\ PipelineInit(Caller)
    /\ given = [NoInput EXCEPT !.domain = <<"d">>, !.token = <<"t", " ">>]
    /\ built = [NotBuilt EXCEPT !.client = KaitenClient(given.token, given.domain)]
    /\ server = [store |-> <<{[path |-> ENDPOINT_CHECKLIST_ITEMS, map |-> ItemPayload]}>>]
    /\ obj = NoObject
    /\ wire = NoWire

(* The headers of the session: initialize(), line 97 *)
SessionHeaders == get_headers(built.client.value.config._token)

(* An object method (or, with method None, the caller itself) awaits the     *)
(* facade operation op, which calls _request(http, path/id, json=json).      *)
(* The observer records in created the title and column_id a card was asked  *)
(* for (asked), until the card is updated or deleted.                         *)
ObjStart(c, method, op, http, path, id, json, asked) ==
    /\ made < MaxCalls
    /\ Call(c, op, [path |-> path, id |-> id])
    /\ wire' = IF pc'[c] = "done" THEN wire
                ELSE [method |-> http, path |-> path, id |-> id,
                      headers |-> RequestHeaders(SessionHeaders, <<>>), json |-> json]
    /\ obj' = [obj EXCEPT !.method = method,
                          !.before = [_id |-> obj._id, _data |-> obj._data],
                          !.created = IF op \in {"create_card", "update_card", "delete_card"}
                                      THEN asked ELSE @]
    /\ UNCHANGED <<given, built, server, history>>

(* client.create_card(title=T, column_id=C) *)
ObjCreateCard ==
    \E c \in Caller, T \in Titles, C \in ColumnIds :
        /\ Len(server.store) < MaxStored
        /\ ObjStart(c, None, "create_card", "POST", ENDPOINT_CARDS, {},
                    {CreateCardBody({T}, {C}, <<>>)},
                    {[id |-> {}, title |-> {T}, column_id |-> {C}]})

(* client.get_card(i) *)
ObjGetCard ==
    \E c \in Caller, i \in 1..MaxStored :
        /\ pc[c] = "idle"
        /\ ObjStart(c, None, "get_card", "GET", ENDPOINT_CARDS, {i}, {}, {})

(* Card.refresh, card.py lines 83-87 *)
CardRefresh ==
    \E c \in Caller :
        /\ obj.cls = "Card"
        /\ ObjStart(c, "refresh", "get_card", "GET", ENDPOINT_CARDS, obj._id, {}, {})

(* Card.update(title=T), card.py lines 89-101 *)
CardUpdate ==
    \E c \in Caller, T \in Titles :
        /\ obj.cls = "Card"
        /\ ObjStart(c, "update", "update_card", "PATCH", ENDPOINT_CARDS, obj._id,
                    {[title |-> {T}]}, {})

(* Card.delete, card.py lines 103-110 *)
CardDelete ==
    \E c \in Caller :
        /\ obj.cls = "Card"
        /\ ObjStart(c, "delete", "delete_card", "DELETE", ENDPOINT_CARDS, obj._id, {}, {})

(* The caller makes a ChecklistItem of the item's data, with the card and    *)
(* the checklist it belongs to.                                               *)
ItemHold ==
    \E c \in Caller, e \in Stored(server, ENDPOINT_CHECKLIST_ITEMS, {1}) :
        /\ pc[c] = "idle"
        /\ obj.cls # "ChecklistItem"
        /\ obj' = Holding(KaitenObject("ChecklistItem",
                                       DictSet(DictSet(JMap(e.map), "card_id", {ItemCardId}),
                                               "checklist_id", {ItemChecklistId})),
                          obj)
        /\ UNCHANGED <<clock, request_times, session, is_initialized, opened, closes,
                       closing, made, rejected, callVars, history, given, built, server,
                       wire>>

(* ChecklistItem.update, checklist_item.py lines 94-138, as called with      *)
(* given_args and remove_responsible: it goes on only with its three ids set.*)
ItemUpdate(c, method, given_args, remove_responsible) ==
    /\ obj.cls = "ChecklistItem"
    /\ obj._id # {}
    /\ ObjectGet(obj, "card_id") # {}
    /\ ObjectGet(obj, "checklist_id") # {}
    /\ ObjStart(c, method, "update_checklist_item", "PATCH", ENDPOINT_CHECKLIST_ITEMS,
                obj._id, {UpdateItemBody(ItemUpdateArgs(given_args, remove_responsible))},
                {})

(* ChecklistItem.remove_responsible, lines 178-185 *)
ItemRemoveResponsible ==
    \E c \in Caller :
        /\ pc[c] = "idle"
        /\ ItemUpdate(c, "remove_responsible", <<>>, TRUE)

(* ChecklistItem.clear_due_date, lines 205-212 *)
ItemClearDueDate ==
    \E c \in Caller :
        /\ pc[c] = "idle"
        /\ ItemUpdate(c, "clear_due_date", [due_date |-> {}], FALSE)

(* client.upload_file(card_id, file_path) *)
ObjUpload ==
    \E c \in Caller :
        /\ made < MaxCalls
        /\ Upload(c)
        /\ wire' = IF pc'[c] = "done" THEN wire
                    ELSE [method |-> "POST", path |-> ENDPOINT_CARD_FILES, id |-> {},
                          headers |-> RequestHeaders(SessionHeaders,
                                        get_upload_headers(built.client.value.config._token)),
                          json |-> {}]
        /\ obj' = [obj EXCEPT !.method = None,
                              !.before = [_id |-> obj._id, _data |-> obj._data]]
        /\ UNCHANGED <<given, built, server, history>>

(* The service answers the request of a _request call *)
ObjAnswer ==
    \E c \in Caller :
        LET a == ServerAnswer(server, wire)
        IN  /\ pc[c] = "sent"
            /\ Respond(c, a.response)
            /\ server' = a.server
            /\ obj' = IF pc'[c] = "done" THEN AfterCall(obj, req[c].op, result'[c], wire)
                      ELSE obj
            /\ UNCHANGED <<given, built, wire, rejected>>

(* The exchange of a _request call fails before the service acts *)
ObjFail ==
    \E c \in Caller, r \in ObjFailures :
        /\ Respond(c, r)
        /\ obj' = IF pc'[c] = "done" THEN AfterCall(obj, req[c].op, result'[c], wire)
                  ELSE obj
        /\ UNCHANGED <<given, built, server, wire, rejected>>

ObjUploadRespond ==
    \E c \in Caller, r \in UploadResponses :
        UploadRespond(c, r) /\ UNCHANGED history /\ UNCHANGED dataVars

ObjWakeRate == \E c \in Caller : WakeRate(c) /\ UNCHANGED history
ObjWakeRetry == \E c \in Caller : WakeRetry(c)

ObjCollect ==
    \E c \in Caller :
        /\ Collect(c)
        /\ obj' = [obj EXCEPT !.method = None]
        /\ UNCHANGED <<given, built, server, wire>>

(* Time passes while a call sleeps: what the objects do does not depend on   *)
(* the time between two calls.                                                *)
ObjTick ==
    /\ \E c \in Caller : pc[c] \in {"rate_wait", "wait_retry"} /\ clock < wake[c]
    /\ Advance(ObjMaxClock)

ObjNext ==
    \/ ObjCreateCard \/ ObjGetCard \/ CardRefresh \/ CardUpdate \/ CardDelete
    \/ ItemHold \/ ItemRemoveResponsible \/ ItemClearDueDate \/ ObjUpload
    \/ ObjAnswer \/ ObjFail \/ ObjUploadRespond \/ ObjWakeRate \/ ObjWakeRetry
    \/ ObjCollect \/ ObjTick

SpecObjects == ObjInit /\ [][ObjNext]_vars

-----------------------------------------------------------------------------
(* Boards: one caller holding a Space creates boards, through the space and  *)
(* through the client, against the same service.                              *)

SpacePayload == [id |-> {3}, title |-> {"S"}]

Descriptions == {{}, {"D"}}

BoardsInit ==
    /\ PipelineInit(Caller)
    /\ given = [NoInput EXCEPT !.domain = <<"d">>, !.token = <<"t">>]
    /\ built = [NotBuilt EXCEPT !.client = KaitenClient(given.token, given.domain)]
    /\ server = NoServer
    /\ obj = Holding(KaitenObject("Space", JMap(SpacePayload)), NoObject)
    /\ wire = NoWire

(* client.create_board(title=T, space_id=id, description=D) *)
ClientCreateBoard ==
    \E c \in Caller, T \in Titles, D \in Descriptions :
        /\ Len(server.store) < MaxStored
        /\ ObjStart(c, None, "create_board", "POST", ENDPOINT_BOARDS, obj._id,
                    {CreateBoardBody({T}, D)}, {})

(* Space.create_board(title=T, description=D), space.py lines 157-180: the   *)
(* call of self._client.create_board with its keyword arguments either       *)
(* starts the coroutine of the client or raises at once.                      *)
SpaceCreateBoard ==
    \E c \in Caller, T \in Titles, D \in Descriptions :
        /\ obj.cls = "Space"
        /\ Len(server.store) < MaxStored
        /\ IF BindKeywords(create_board_parameters, SpaceCreateBoardKeywords) = "bound"
           THEN ObjStart(c, "create_board", "create_board", "POST", ENDPOINT_BOARDS,
                         obj._id, {CreateBoardBody({T}, D)}, {})
           ELSE /\ pc[c] = "idle"
                /\ made < MaxCalls
                /\ made' = made + 1
                /\ req' = [req EXCEPT ![c] = [op |-> "create_board",
                                              endpoint |-> [path |-> ENDPOINT_BOARDS,
                                                            id |-> obj._id]]]
                /\ pc' = [pc EXCEPT ![c] = "done"]
                /\ result' = [result EXCEPT ![c] = FacadeRaise("TypeError")]
                /\ obj' = [obj EXCEPT !.method = "create_board",
                                      !.before = [_id |-> obj._id, _data |-> obj._data]]
                /\ UNCHANGED <<clock, request_times, session, is_initialized, opened,
                               closes, closing, rejected, wake, attempt, last, outcome,
                               sent, stamps, slept, history, given, built, server, wire>>

BoardsNext ==
    \/ ClientCreateBoard \/ SpaceCreateBoard
    \/ ObjAnswer \/ ObjFail \/ ObjWakeRate \/ ObjWakeRetry \/ ObjCollect \/ ObjTick

SpecBoards == BoardsInit /\ [][BoardsNext]_vars

-----------------------------------------------------------------------------
(* Checklist items: one caller holding the checklist item of the service     *)
(* toggles it again and again; the service applies each update it receives   *)
(* and answers with the item, and exchanges may fail.                         *)

(* The item the service holds from the start: checked, not checked, or with  *)
(* no checked field                                                           *)
CheckedValues == {{}, {FALSE}, {TRUE}}

TogglePayload(checked) ==
    [k \in {"id", "text"} \cup {f \in {"checked"} : checked # {}} |->
        IF k = "id" THEN {1} ELSE IF k = "text" THEN {"x"} ELSE checked]

ItemsInit ==
    /\ PipelineInit(Caller)
    /\ given = [NoInput EXCEPT !.domain = <<"d">>, !.token = <<"t">>]
    /\ built = [NotBuilt EXCEPT !.client = KaitenClient(given.token, given.domain)]
    /\ \E checked \in CheckedValues :
          server = [store |-> <<{[path |-> ENDPOINT_CHECKLIST_ITEMS,
                                  map |-> TogglePayload(checked)]}>>]
    /\ obj = NoObject
    /\ wire = NoWire

(* The caller makes a ChecklistItem of the item's data; the observer notes   *)
(* the checked value it has then.                                             *)
ItemsHold ==
    \E c \in Caller, e \in Stored(server, ENDPOINT_CHECKLIST_ITEMS, {1}) :
        LET item == KaitenObject("ChecklistItem",
                                 DictSet(DictSet(JMap(e.map), "card_id", {ItemCardId}),
                                         "checklist_id", {ItemChecklistId}))
        IN  /\ pc[c] = "idle"
            /\ obj.cls # "ChecklistItem"
            /\ obj' = [Holding(item, obj) EXCEPT
                          !.created = {[toggles |-> 0, first |-> DictGet(item._data, "checked")]}]
            /\ UNCHANGED <<clock, request_times, session, is_initialized, opened, closes,
                           closing, made, rejected, callVars, history, given, built, server,
                           wire>>

(* ChecklistItem.toggle_checked, lines 156-164 *)
ItemToggleChecked ==
    \E c \in Caller :
        /\ pc[c] = "idle"
        /\ ItemUpdate(c, "toggle_checked",
                      [checked |-> {new_checked(ObjectGet(obj, "checked"))}], FALSE)

ItemsNext ==
    \/ ItemsHold \/ ItemToggleChecked
    \/ ObjAnswer \/ ObjFail \/ ObjWakeRate \/ ObjWakeRetry \/ ObjCollect \/ ObjTick

SpecItems == ItemsInit /\ [][ItemsNext]_vars

-----------------------------------------------------------------------------
(* Checklist statistics: a Checklist is made of a payload drawn when the     *)
(* behaviour starts, and its statistics are asked for.                        *)

MaxItems == 3

(* An item without checked, with checked null, false and true *)
CheckedForms ==
    {[id |-> {1}]} \cup {[id |-> {1}, checked |-> v] : v \in {{}, {FALSE}, {TRUE}}}

ItemLists == UNION {[1..n -> CheckedForms] : n \in 0..MaxItems}

(* A checklist payload without items, with items null, and with a list *)
ChecklistPayloads ==
    {[id |-> {1}, card_id |-> {1}]}
    \cup {[id |-> {1}, card_id |-> {1}, items |-> v] :
            v \in {{}} \cup {{list} : list \in ItemLists}}

StatsInit ==
    /\ PipelineInit(Caller)
    /\ given \in {[payload |-> p] : p \in ChecklistPayloads}
    /\ built = [stats |-> Unmade, is_completed |-> Unmade]
    /\ server = NoServer
    /\ obj = Holding(KaitenObject("Checklist", JMap(given.payload)), NoObject)
    /\ wire = NoWire

StatsGetCompletionStats ==
    /\ built.stats.kind = "pending"
    /\ built' = [built EXCEPT !.stats = Made(get_completion_stats(obj))]
    /\ UNCHANGED <<clock, request_times, session, is_initialized, opened, closes, closing,
                   made, rejected, callVars, history, given, server, obj, wire>>

StatsIsCompleted ==
    /\ built.is_completed.kind = "pending"
    /\ built' = [built EXCEPT !.is_completed = Made(is_completed(obj))]
    /\ UNCHANGED <<clock, request_times, session, is_initialized, opened, closes, closing,
                   made, rejected, callVars, history, given, server, obj, wire>>

StatsNext == StatsGetCompletionStats \/ StatsIsCompleted

SpecStats == StatsInit /\ [][StatsNext]_vars

-----------------------------------------------------------------------------
(* Equality: three values, domain objects of two classes or a plain mapping, *)
(* are drawn when the behaviour starts and are compared and hashed.          *)

EqualityIds == {{}, {1}, {2}}

EqualityObjects ==
    {KaitenObject(cls, JMap([id |-> i, title |-> {T}])) :
        cls \in {"Card", "Checklist"}, i \in EqualityIds, T \in Titles}

EqualityValues == EqualityObjects \cup {JMap([id |-> {1}, title |-> {"T"}])}

EqualityInit ==
    /\ PipelineInit(Caller)
    /\ given \in {[a |-> a, b |-> b, c |-> c] :
                    a \in EqualityObjects, b \in EqualityValues, c \in EqualityValues}
    /\ built = [eq |-> Unmade, hash |-> Unmade]
    /\ server = NoServer
    /\ obj = NoObject
    /\ wire = NoWire

(* a == a, a == b, b == a, b == c, a == c *)
EqualityCompare ==
    /\ built.eq.kind = "pending"
    /\ built' = [built EXCEPT !.eq =
                    Made([aa |-> PyEq(given.a, given.a), ab |-> PyEq(given.a, given.b),
                          ba |-> PyEq(given.b, given.a), bc |-> PyEq(given.b, given.c),
                          ac |-> PyEq(given.a, given.c)])]
    /\ UNCHANGED <<clock, request_times, session, is_initialized, opened, closes, closing,
                   made, rejected, callVars, history, given, server, obj, wire>>

(* hash(a), and hash(b) when b is a domain object *)
EqualityHash ==
    /\ built.hash.kind = "pending"
    /\ built' = [built EXCEPT !.hash =
                    Made([a |-> {hash(given.a)},
                          b |-> IF IsKaitenObject(given.b) THEN {hash(given.b)} ELSE {}])]
    /\ UNCHANGED <<clock, request_times, session, is_initialized, opened, closes, closing,
                   made, rejected, callVars, history, given, server, obj, wire>>

EqualityNext == EqualityCompare \/ EqualityHash

SpecEquality == EqualityInit /\ [][EqualityNext]_vars

-----------------------------------------------------------------------------
(* Properties *)

(* The attempts of call c so far all ended in session.request raising an     *)
(* aiohttp.ClientError, the latest included.                                  *)
OnlyTransportErrors(c) ==
    /\ last[c].type = "exc"
    /\ IsInstance(last[c].exc, "ClientError")
    /\ \A i \in 1..Len(slept[c]) : slept[c][i].after = "exc"

(* The attempts of call c so far all returned HTTP 429 *)
OnlyRejections(c) ==
    /\ last[c].type = "http"
    /\ last[c].status = 429
    /\ \A i \in 1..Len(slept[c]) : slept[c][i].after = "429"

(* C1: among all timestamps ever appended to the rate window, no window of  *)
(* one second holds more than LIMIT_PER_SEC of them, also in runs where a    *)
(* call receives HTTP 429.                                                    *)
C1_NoWindowOverLimit ==
    \A i \in 1..Len(history) :
        Cardinality({j \in 1..Len(history) :
                        /\ history[j] <= history[i]
                        /\ history[i] - history[j] < Ticks(1)}) <= 3

(* C2: every transport attempt of a call is preceded by its own acquisition *)
(* in the rate limiter: a call that has started k attempts has appended k    *)
(* timestamps.                                                                *)
C2_EveryAttemptAcquires ==
    \A c \in DOMAIN pc : stamps[c] = sent[c]

(* C3: an attempt that returns HTTP 404 ends the call at once: no further   *)
(* attempt and no backoff follow it (one attempt in all when it is the first *)
(* response), and the call raises KaitenNotFoundError with status code 404   *)
(* and the requested endpoint in its message.                                 *)
C3_NotFoundFailsAtOnce ==
    \A c \in DOMAIN pc :
        (last[c].type = "http" /\ last[c].status = 404) =>
            /\ pc[c] = "done"
            /\ sent[c] = Len(slept[c]) + 1
            /\ outcome[c].kind = "raise"
            /\ outcome[c].cls = "KaitenNotFoundError"
            /\ outcome[c].status_code = {404}
            /\ outcome[c].arg = req[c].endpoint

C3_Witness ==
    \E c \in DOMAIN pc :
        /\ last[c].type = "http" /\ last[c].status = 404
        /\ pc[c] = "done" /\ sent[c] = 1 /\ slept[c] = <<>>
        /\ outcome[c].cls = "KaitenNotFoundError"

(* C4: when a call whose latest attempt returned HTTP 429 starts its next   *)
(* attempt, the rate window is empty.                                         *)
C4_WindowEmptyAtRetry ==
    [][\A c \in DOMAIN pc :
          (pc[c] = "wait_429" /\ sent'[c] = sent[c] + 1) => request_times' = <<>>]_vars

(* A retry after a 429 is in flight and the window is empty although another *)
(* caller recorded its request start while the first one slept.              *)
C4_Witness ==
    \E c, d \in DOMAIN pc :
        /\ c # d
        /\ pc[c] = "sent" /\ attempt[c] = 2 /\ last[c].status = 429
        /\ stamps[d] = 1 /\ pc[d] = "sent"
        /\ request_times = <<>>

(* The wait, in seconds, that each Retry-After header of the model calls for *)
C5_ExpectedWait(header) ==
    IF ~header.present THEN 1
    ELSE IF header.text = <<"0">> THEN 0
    ELSE IF header.text = <<"2">> THEN 2
    ELSE 1

(* C5: on HTTP 429 the call sleeps the number in the Retry-After header, or *)
(* 1 second when the header is absent or is no number, and nothing more: the *)
(* sleep ends at that time and the call then goes on without another wait.   *)
C5_WaitsRetryAfter ==
    [][\A c \in DOMAIN pc :
          /\ (pc[c] = "sent" /\ pc'[c] # "sent" /\ last'[c].status = 429) =>
                 /\ pc'[c] = "wait_429"
                 /\ wake'[c] = clock + Ticks(C5_ExpectedWait(last'[c].retry_after))
                 /\ slept'[c] = Append(slept[c],
                        [after |-> "429", secs |-> C5_ExpectedWait(last'[c].retry_after)])
          /\ (pc[c] = "wait_429" /\ pc'[c] # "wait_429") =>
                 /\ clock >= wake[c]
                 /\ pc'[c] \in {"sent", "done"}
                 /\ slept'[c] = slept[c]]_vars

(* A call that slept 2 seconds on a Retry-After of 2, went on when they had  *)
(* passed, and now sleeps 1 second on a Retry-After that is no number.       *)
C5_Witness ==
    \E c \in DOMAIN pc :
        /\ slept[c] = <<[after |-> "429", secs |-> 2], [after |-> "429", secs |-> 1]>>
        /\ last[c].retry_after = Header(<<"x">>)
        /\ pc[c] = "wait_429" /\ attempt[c] = 2
        /\ wake[c] = Ticks(2) + Ticks(1)

(* C6: a call all of whose MAX_RETRIES attempts returned HTTP 429 raises     *)
(* KaitenRateLimitError with status code 429 and the suggested retry delay.  *)
C6_RateLimitKind ==
    \A c \in DOMAIN pc :
        (pc[c] = "done" /\ OnlyRejections(c)) =>
            /\ outcome[c].kind = "raise"
            /\ outcome[c].cls = "KaitenRateLimitError"
            /\ outcome[c].status_code = {429}
            /\ outcome[c].retry_after # {}

C8_ConnectionErrorKind ==
    \A c \in DOMAIN pc :
        (pc[c] = "done" /\ OnlyTransportErrors(c)) =>
            /\ outcome[c].kind = "raise"
            /\ outcome[c].cls = "KaitenConnectionError"

(* C9: an attempt that returns HTTP 204 makes the call return null, one that *)
(* returns another status below 400 with a JSON body makes it return that    *)
(* JSON value unchanged; either way the call is over with that attempt.      *)
C9_SuccessPayload ==
    \A c \in DOMAIN pc :
        (last[c].type = "http" /\ last[c].status < 400) =>
            /\ last[c].status = 204 =>
                   pc[c] = "done" /\ outcome[c] = Return(JNull)
            /\ (last[c].status # 204 /\ last[c].body.kind = "json") =>
                   /\ pc[c] = "done"
                   /\ outcome[c].kind = "return"
                   /\ outcome[c].value = last[c].body.val
            /\ pc[c] = "done" => sent[c] = attempt[c]

(* A list came back on the second attempt and the call returned it *)
C9_Witness ==
    \E c \in DOMAIN pc :
        /\ pc[c] = "done" /\ last[c].status = 200 /\ sent[c] = 2
        /\ outcome[c].kind = "return" /\ outcome[c].value = JList(<<1, 2>>)

(* C10: every list-returning facade operation unwraps the payload the same  *)
(* way: a list as it is, an object's items field, the empty list for an      *)
(* object without items.                                                      *)
C10_UniformUnwrapping ==
    \A c \in DOMAIN pc :
        (/\ pc[c] = "done" /\ req[c].op \in ListOps
         /\ outcome[c].kind = "return" /\ outcome[c].value.t \in {"list", "obj"}) =>
            /\ result[c].kind = "return"
            /\ result[c].items =
                   IF outcome[c].value.t = "list" \/ "items" \in outcome[c].value.keys
                   THEN outcome[c].value.elems ELSE <<>>

(* C11: an attempt that returns HTTP 422 ends the call at once, whatever the *)
(* body: no further attempt and no backoff follow it, and the call raises    *)
(* KaitenValidationError with status code 422.                                *)
C11_ValidationFailsAtOnce ==
    \A c \in DOMAIN pc :
        (last[c].type = "http" /\ last[c].status = 422) =>
            /\ pc[c] = "done"
            /\ sent[c] = Len(slept[c]) + 1
            /\ outcome[c].kind = "raise"
            /\ outcome[c].cls = "KaitenValidationError"
            /\ outcome[c].status_code = {422}

C13_EndsWithinBudget ==
    /\ [](\A c \in Caller : sent[c] <= MAX_RETRIES)
    /\ \A c \in Caller :
           (pc[c] \notin {"idle", "done"}) ~> (pc[c] = "done" /\ outcome[c].kind # "pending")

(* A call that met a 429, then a transport error, and failed on its third    *)
(* attempt with another 429                                                   *)
C13_Witness ==
    \E c \in Caller :
        /\ pc[c] = "done" /\ sent[c] = MAX_RETRIES /\ outcome[c].kind = "raise"
        /\ Len(slept[c]) = 3
        /\ slept[c][1].after = "429" /\ slept[c][2].after = "exc"
        /\ slept[c][3].after = "429"

(* C14: every session the client has created is closed exactly once: none    *)
(* has had close() called on it twice, and one that the client holds no      *)
(* longer has been closed.                                                    *)
C14_ClosedExactlyOnce ==
    \A s \in 1..opened :
        /\ closes[s] <= 1
        /\ s \notin session => closes[s] = 1

C16_WindowLivesWithSession ==
    [][/\ (session # {} /\ session' = {}) => request_times' = <<>>
       /\ (session = {} /\ session' # {}) => request_times = <<>>]_vars

(* C19: cancelling a call that has recorded its timestamp, during the        *)
(* exchange or a backoff sleep, leaves the rate window as it was, and what   *)
(* comes out of the call is the cancellation: no payload, no KaitenApiError. *)
C19_CancelKeepsWindow ==
    [][\A c \in DOMAIN pc :
          (/\ pc[c] \in {"sent", "wait_429", "wait_retry"}
           /\ outcome'[c].cls = "CancelledError") =>
              /\ request_times' = request_times
              /\ outcome'[c].kind = "raise"
              /\ ~IsInstance(outcome'[c].cls, "KaitenApiError")
              /\ result'[c].kind = "raise"]_vars

(* A call cancelled in the sleep after a 429, its timestamp still in the     *)
(* window                                                                     *)
C19_Witness ==
    \E c \in DOMAIN pc :
        /\ pc[c] = "done" /\ outcome[c].cls = "CancelledError"
        /\ stamps[c] = 1 /\ last[c].status = 429 /\ Len(slept[c]) = 1
        /\ request_times # <<>>

(* C17, as stated: in every reachable state the rate window holds no         *)
(* timestamp that is a second old or older.                                   *)
C17_NoStaleTimestamp ==
    \A i \in 1..Len(request_times) : clock - request_times[i] < Ticks(1)

(* C17, amended: a call that appends a timestamp prunes in the same step:    *)
(* the window after the append is the entries less than a second old         *)
(* followed by the new timestamp, which is the present time, so right after  *)
(* every append no entry is a second old or older.  (Between appends older   *)
(* entries stay stored until the next call prunes them.)                      *)
C17_PrunedAtAppend ==
    [][\A c \in DOMAIN pc :
          (stamps'[c] = stamps[c] + 1) =>
              /\ request_times' =
                     Append(SelectSeq(request_times, LAMBDA t : clock - t < Ticks(1)), clock)
              /\ \A i \in 1..Len(request_times') : clock - request_times'[i] < Ticks(1)]_vars

(* The second call of a client, made a second or more after the first one    *)
(* was answered, has just appended: the window holds its timestamp alone.    *)
C17_Witness ==
    \E c \in DOMAIN pc :
        /\ made = 2 /\ pc[c] = "sent" /\ attempt[c] = 1 /\ stamps[c] = 1
        /\ clock >= Ticks(1)
        /\ request_times = <<clock>>

(* C18: the rate window never holds more than LIMIT_PER_SEC timestamps,      *)
(* whatever the interleaving of the callers: a caller appends only in a step *)
(* in which fewer than LIMIT_PER_SEC of the entries are less than a second   *)
(* old.                                                                       *)
C18_WindowWithinLimit ==
    /\ [](Len(request_times) <= LIMIT_PER_SEC)
    /\ [][\A c \in DOMAIN pc :
             (stamps'[c] = stamps[c] + 1) =>
                 Cardinality({i \in 1..Len(request_times) :
                                 clock - request_times[i] < Ticks(1)}) < LIMIT_PER_SEC]_vars

(* The window is full, three callers are in their exchanges and a fourth     *)
(* sleeps in the rate limiter.                                                *)
C18_Witness ==
    /\ Len(request_times) = LIMIT_PER_SEC
    /\ \E c \in DOMAIN pc : pc[c] = "rate_wait" /\ stamps[c] = 0
    /\ Cardinality({c \in DOMAIN pc : pc[c] = "sent" /\ stamps[c] = 1}) = LIMIT_PER_SEC

(* C20: a call that fails raises KaitenApiError or a subclass of it, and a   *)
(* call returns null only for an HTTP 204 response.                           *)
C20_OnlyKaitenApiErrors ==
    \A c \in DOMAIN pc :
        pc[c] = "done" =>
            /\ outcome[c].kind = "raise" => IsInstance(outcome[c].cls, "KaitenApiError")
            /\ (outcome[c].kind = "return" /\ outcome[c].value = JNull) =>
                   last[c].status = 204

-----------------------------------------------------------------------------
(* Properties of the configuration *)

(* s is empty or whitespace only *)
Blank(s) == \A i \in 1..Len(s) : s[i] \in Whitespace

(* t is s without the whitespace at its two ends, and is not empty *)
IsTrimOf(t, s) ==
    /\ t # <<>>
    /\ t[1] \notin Whitespace
    /\ t[Len(t)] \notin Whitespace
    /\ \E i \in 1..Len(s) :
          /\ SubSeq(s, i, i + Len(t) - 1) = t
          /\ Blank(SubSeq(s, 1, i - 1))
          /\ Blank(SubSeq(s, i + Len(t), Len(s)))

(* C21: constructing a client (and so its credentials) with a domain or a    *)
(* token that is empty or whitespace only fails with ValueError and no       *)
(* session is created; otherwise the credentials store the domain and the    *)
(* token trimmed, and neither is empty.                                       *)
C21_BlankCredentialsRejected ==
    built.client.kind # "pending" =>
        IF Blank(given.domain) \/ Blank(given.token)
        THEN /\ built.client.kind = "raise"
             /\ built.client.cls = "ValueError"
             /\ session = {}
             /\ opened = 0
        ELSE /\ built.client.kind = "return"
             /\ IsTrimOf(built.client.value.config._domain, given.domain)
             /\ IsTrimOf(built.client.value.config._token, given.token)

C21_Witness ==
    /\ built.client.kind = "raise"
    /\ ~Blank(given.domain)
    /\ given.token # <<>>
    /\ Blank(given.token)

(* C22: a bare domain d, d.kaiten.ru, either of them after http:// or        *)
(* https://, and any of these followed by slashes, all give the base URL     *)
(* https://d.kaiten.ru/api/v1.                                                *)
C22_BaseUrlNormalized ==
    built.base_url.kind # "pending" =>
        \A d \in BareDomains, pre \in {<<>>, HTTP_PREFIX, HTTPS_PREFIX},
           suf \in {<<>>, KAITEN_SUFFIX}, n \in 0..MaxSlashes :
            given.domain = pre \o d \o suf \o Slashes(n) =>
                /\ built.base_url.kind = "return"
                /\ built.base_url.value =
                      HTTPS_PREFIX \o d \o KAITEN_SUFFIX
                          \o <<"/", "a", "p", "i", "/", "v", "1">>

C22_Witness ==
    /\ built.base_url.kind = "return"
    /\ given.domain = HTTP_PREFIX \o <<"m", "y">> \o KAITEN_SUFFIX \o <<"/", "/">>

(* The query string of the parameters that are not null: '?' before the      *)
(* first unless a '?' is already there, '&' before the others.                *)
RECURSIVE ExpectedQuery(_, _)
ExpectedQuery(params, started) ==
    IF params = <<>> THEN <<>>
    ELSE LET p == Head(params)
         IN  IF p.value = {} THEN ExpectedQuery(Tail(params), started)
             ELSE <<IF started THEN "&" ELSE "?">> \o p.key \o <<"=">> \o PyStr(p.value)
                      \o ExpectedQuery(Tail(params), TRUE)

(* C27: the URL of a request is the base URL, the endpoint and then each     *)
(* parameter that is not null as key=value in the order given, the first     *)
(* after '?' (after '&' when the endpoint has a '?' already) and the others  *)
(* after '&'; a parameter that is null is left out.                           *)
C27_QueryOfNonNullParams ==
    built.url.kind = "return" =>
        built.url.value =
            get_base_url(built.client.value.domain).value \o given.endpoint
                \o ExpectedQuery(given.params,
                                 \E i \in 1..Len(given.endpoint) : given.endpoint[i] = "?")

-----------------------------------------------------------------------------
(* Properties of the domain objects *)

(* C23: a card created with title T and column_id C and then fetched by the  *)
(* id create_card returned is a Card whose title is T and whose column_id is *)
(* C.                                                                         *)
C23_CreateThenGetRoundTrip ==
    \A c \in Caller :
        (/\ pc[c] = "done"
         /\ req[c].op = "get_card"
         /\ result[c].kind = "return"
         /\ \E cr \in obj.created : cr.id # {} /\ wire.id = cr.id)
        => \A cr \in obj.created :
              /\ result[c].cls = "Card"
              /\ ObjectGet(result[c].items[1], "title") = cr.title
              /\ ObjectGet(result[c].items[1], "column_id") = cr.column_id

C23_Witness ==
    \E c \in Caller :
        /\ pc[c] = "done"
        /\ req[c].op = "get_card"
        /\ obj.method = None
        /\ result[c].kind = "return"
        /\ \E cr \in obj.created : wire.id = cr.id /\ cr.title = {"T"} /\ cr.column_id = {5}

(* C24: a delete answered with 404 ends in KaitenNotFoundError for the       *)
(* caller, and a delete gives True only when its _request returned.           *)
C24_DeleteOfDeletedSurfaces ==
    \A c \in Caller :
        (pc[c] = "done" /\ req[c].op = "delete_card") =>
            /\ (last[c].type = "http" /\ last[c].status = 404) =>
                  /\ outcome[c].kind = "raise"
                  /\ outcome[c].cls = "KaitenNotFoundError"
                  /\ result[c] = FacadeRaise("KaitenNotFoundError")
            /\ result[c].kind = "return" =>
                  /\ result[c].items = <<TRUE>>
                  /\ outcome[c].kind = "return"
                  /\ last[c].type = "http"
                  /\ last[c].status < 400

C24_Witness ==
    \E c \in Caller :
        /\ pc[c] = "done"
        /\ req[c].op = "delete_card"
        /\ obj.method = "delete"
        /\ last[c].status = 404
        /\ \E i \in wire.id : i <= Len(server.store) /\ server.store[i] = {}
        /\ result[c] = FacadeRaise("KaitenNotFoundError")

(* C25: every exchange of a facade operation, upload_file included, comes    *)
(* after an acquisition of the rate limiter that recorded a timestamp, and a *)
(* transport error of it is retried up to MAX_RETRIES attempts and then      *)
(* surfaces as a KaitenApiError, as _request does.                            *)
C25_EveryExchangeThroughPipeline ==
    \A c \in Caller :
        /\ sent[c] > 0 => stamps[c] > 0
        /\ (pc[c] = "done" /\ last[c].type = "exc" /\ IsInstance(last[c].exc, "ClientError"))
              => /\ sent[c] = MAX_RETRIES
                 /\ IsInstance(outcome[c].cls, "KaitenApiError")

(* C26: an upload request carries the Bearer Authorization header and        *)
(* neither Content-Type nor Accept; a JSON request carries Accept and        *)
(* Content-Type application/json and the same Authorization header.           *)
C26_UploadHeadersWithoutContentType ==
    wire.method # None =>
        IF wire.path = ENDPOINT_CARD_FILES
        THEN /\ "Authorization" \in DOMAIN wire.headers
             /\ wire.headers["Authorization"] = Bearer(built.client.value.config._token)
             /\ "Content-Type" \notin DOMAIN wire.headers
             /\ "Accept" \notin DOMAIN wire.headers
        ELSE /\ DOMAIN wire.headers = {"Accept", "Content-Type", "Authorization"}
             /\ wire.headers["Accept"] = "application/json"
             /\ wire.headers["Content-Type"] = "application/json"
             /\ wire.headers["Authorization"] = Bearer(built.client.value.config._token)

(* C28: when the _request call made for an object's update() or refresh()    *)
(* raises, the caller gets that exception, the call made no more attempts    *)
(* and acquisitions than one _request makes, and the object's _id and _data  *)
(* are what they were before the call.                                        *)
C28_FailurePropagatesUnchanged ==
    \A c \in Caller :
        (/\ pc[c] = "done"
         /\ obj.method \in {"refresh", "update", "remove_responsible", "clear_due_date"}
         /\ outcome[c].kind = "raise")
        => /\ result[c] = FacadeRaise(outcome[c].cls)
           /\ sent[c] <= MAX_RETRIES
           /\ stamps[c] <= 1
           /\ obj._id = obj.before._id
           /\ obj._data = obj.before._data

C28_Witness ==
    \E c \in Caller :
        /\ pc[c] = "done"
        /\ obj.cls = "Card"
        /\ obj.method = "update"
        /\ outcome[c].kind = "raise"
        /\ sent[c] = MAX_RETRIES
        /\ obj._id # {}
        /\ IsMapping(obj._data)

(* C29: after a refresh() or update() that succeeded, the object's _data is  *)
(* the payload _request returned for that call, a plain mapping, and its _id *)
(* is what it was.                                                            *)
C29_CachedDataIsPayload ==
    \A c \in Caller :
        (/\ pc[c] = "done"
         /\ obj.method \in {"refresh", "update"}
         /\ result[c].kind = "return")
        => /\ IsMapping(obj._data)
           /\ obj._data = outcome[c].value
           /\ obj._id = obj.before._id

(* C30: remove_responsible() and clear_due_date(), when they succeed, have   *)
(* sent a PATCH whose body holds responsible_id (due_date) with the value    *)
(* null, and the item on the server has that field cleared.                   *)
C30_ClearingSendsNull ==
    \A c \in Caller :
        (/\ pc[c] = "done"
         /\ obj.method \in {"remove_responsible", "clear_due_date"}
         /\ result[c].kind = "return")
        => LET field == IF obj.method = "remove_responsible" THEN "responsible_id"
                        ELSE "due_date"
           IN  /\ wire.method = "PATCH"
               /\ wire.json # {}
               /\ \A b \in wire.json : field \in DOMAIN b /\ b[field] = {}
               /\ \A e \in Stored(server, ENDPOINT_CHECKLIST_ITEMS, wire.id) :
                     e.map[field] = {}

(* C31: a Space.create_board call that has ended has sent a POST to the      *)
(* boards endpoint of the space through the pipeline, exactly one when no    *)
(* attempt failed in transport, and when it returned it returned a Board     *)
(* wrapping the payload of the response.                                      *)
C31_SpaceCreateBoardPosts ==
    \A c \in Caller :
        (pc[c] = "done" /\ obj.method = "create_board") =>
            /\ sent[c] >= 1
            /\ stamps[c] >= 1
            /\ wire.method = "POST" /\ wire.path = ENDPOINT_BOARDS /\ wire.id = obj._id
            /\ (slept[c] = <<>> => sent[c] = 1)
            /\ result[c].kind = "return" =>
                   result[c] = Wrapped("Board", <<KaitenObject("Board", outcome[c].value)>>)

(* C32: a caller suspended in the rate limiter goes on only by recording a   *)
(* timestamp in a window that it pruned at that reading of the clock and     *)
(* found below the limit, and starts its exchange in the same step; and no   *)
(* caller stays suspended there: from some moment on none is, so each that   *)
(* was has recorded its timestamp and gone on to transport.                   *)
C32_WaitersProceed ==
    /\ [][\A c \in WaitCallers :
            (pc[c] = "rate_wait" /\ pc'[c] # "rate_wait") =>
                /\ stamps'[c] = stamps[c] + 1
                /\ request_times' = Append(Prune(request_times, clock), clock)
                /\ Len(request_times') <= LIMIT_PER_SEC
                /\ sent'[c] = 1]_vars
    /\ <>[](\A c \in WaitCallers : pc[c] # "rate_wait")

(* A caller that slept in the rate limiter, found the window full again when *)
(* it woke, slept a second time and then recorded its timestamp and is in    *)
(* its exchange                                                               *)
C32_Witness ==
    \E c \in WaitCallers :
        /\ wake[c] > RateMaxClock + Ticks(INTERVAL) /\ clock >= wake[c]
        /\ stamps[c] = 1 /\ pc[c] = "sent"
        /\ history[Len(history)] >= wake[c]

(* C33: on attempt MAX_RETRIES a transport error ends the call at once, with *)
(* no sleep, while an HTTP 429 first sleeps the delay its Retry-After header *)
(* calls for, and when that sleep is over the rate window is emptied and the *)
(* call fails.                                                                *)
C33_LastAttemptFailure ==
    [][\A c \in DOMAIN pc :
          /\ (/\ pc[c] = "sent" /\ attempt[c] = MAX_RETRIES /\ pc'[c] # "sent"
              /\ last'[c].type = "exc" /\ IsInstance(last'[c].exc, "ClientError")) =>
                 /\ pc'[c] = "done" /\ outcome'[c].kind = "raise"
                 /\ slept'[c] = slept[c] /\ wake'[c] = wake[c]
          /\ (/\ pc[c] = "sent" /\ attempt[c] = MAX_RETRIES /\ pc'[c] # "sent"
              /\ last'[c].type = "http" /\ last'[c].status = 429) =>
                 /\ pc'[c] = "wait_429" /\ outcome'[c].kind = "pending"
                 /\ wake'[c] = clock + Ticks(C5_ExpectedWait(last'[c].retry_after))
                 /\ request_times' = request_times
          /\ (pc[c] = "wait_429" /\ attempt[c] = MAX_RETRIES /\ pc'[c] # "wait_429") =>
                 /\ clock >= wake[c]
                 /\ request_times' = <<>>
                 /\ pc'[c] = "done" /\ outcome'[c].kind = "raise"
                 /\ sent'[c] = MAX_RETRIES]_vars

(* A call whose third attempt met a 429 without Retry-After has slept the    *)
(* default second after it and then failed, the window empty                 *)
C33_Witness ==
    \E c \in DOMAIN pc :
        /\ pc[c] = "done" /\ attempt[c] = MAX_RETRIES /\ outcome[c].kind = "raise"
        /\ last[c].status = 429 /\ last[c].retry_after = NoHeader
        /\ Len(slept[c]) = MAX_RETRIES
        /\ slept[c][MAX_RETRIES] = [after |-> "429", secs |-> DEFAULT_RETRY_AFTER]
        /\ clock >= wake[c] /\ wake[c] >= Ticks(DEFAULT_RETRY_AFTER)
        /\ request_times = <<>>

(* C34: at every suspension point the client is flagged initialized exactly  *)
(* when it holds a session; a session is created only on a client that is    *)
(* not initialized, so initialize() on an initialized one creates none; on a *)
(* client that is closed no session.close() is started; and a call made on a *)
(* client that is not initialized (never, or closed since) creates the       *)
(* session in the step in which it starts, before any exchange of it.        *)
C34_FlagIffSession ==
    /\ [](is_initialized <=> session # {})
    /\ [][/\ opened' # opened =>
                /\ ~is_initialized /\ session = {}
                /\ opened' = opened + 1 /\ session' = {opened'} /\ is_initialized'
          /\ ~is_initialized =>
                /\ closing' <= closing
                /\ \A s \in DOMAIN closes : closes'[s] = closes[s]
          /\ \A c \in DOMAIN pc :
                /\ (pc[c] = "idle" /\ pc'[c] # "idle" /\ ~is_initialized) =>
                       opened' = opened + 1 /\ is_initialized'
                /\ sent'[c] > sent[c] => (session' # {} /\ is_initialized')]_vars

(* A call on a client that was closed has created the second session and is  *)
(* in its exchange on it                                                      *)
C34_Witness ==
    \E c \in DOMAIN pc :
        /\ pc[c] = "sent" /\ sent[c] = 1
        /\ opened = 2 /\ session = {2} /\ is_initialized
        /\ closes[1] >= 1 /\ closes[2] = 0

(* C35: the request of toggle_checked carries checked, and nothing else, set *)
(* to the negation of the cached checked value (a missing value counting as  *)
(* false); and after an even number of toggles that went through, an item    *)
(* that was held with an explicit boolean has that value again, in the cache *)
(* and at the service.                                                        *)
C35_ToggleTwiceRestores ==
    /\ \A c \in Caller :
          (obj.method = "toggle_checked" /\ pc[c] = "sent") =>
              /\ wire.method = "PATCH" /\ wire.id = obj._id
              /\ wire.json = {[checked |-> {ObjectGet(obj, "checked") # {TRUE}}]}
    /\ \A c \in Caller, t \in obj.created :
          (obj.cls = "ChecklistItem" /\ pc[c] = "idle"
              /\ t.toggles % 2 = 0 /\ t.first # {}) =>
              /\ ObjectGet(obj, "checked") = t.first
              /\ \A e \in Stored(server, ENDPOINT_CHECKLIST_ITEMS, obj._id) :
                    e.map["checked"] = t.first

(* An item held unchecked has been toggled twice, and both went through *)
C35_Witness ==
    \E c \in Caller, t \in obj.created :
        /\ obj.cls = "ChecklistItem" /\ pc[c] = "idle"
        /\ t.toggles = 2 /\ t.first = {FALSE}
        /\ ObjectGet(obj, "checked") = {FALSE}

(* The items of the payload the checklist was made of, and how many of them  *)
(* have checked true                                                          *)
CachedItems ==
    IF "items" \in DOMAIN given.payload /\ given.payload["items"] # {}
    THEN CHOOSE list \in given.payload["items"] : TRUE
    ELSE <<>>

CheckedCount ==
    Cardinality({i \in DOMAIN CachedItems :
                    "checked" \in DOMAIN CachedItems[i] /\ CachedItems[i]["checked"] = {TRUE}})

(* C36: get_completion_stats gives total = the number of cached items and    *)
(* completed = the number of them whose checked is true, with 0 <= completed *)
(* <= total and a percentage of 0 for a checklist without items; and         *)
(* is_completed is true exactly when total > 0 and completed = total.        *)
C36_CompletionStats ==
    /\ built.stats.kind = "return" =>
          LET stats == built.stats.value
          IN  /\ stats.total = Len(CachedItems)
              /\ stats.completed = CheckedCount
              /\ 0 <= stats.completed /\ stats.completed <= stats.total
              /\ stats.total = 0 => stats.percentage = 0
    /\ built.is_completed.kind = "return" =>
          (built.is_completed.value <=>
              (Len(CachedItems) > 0 /\ CheckedCount = Len(CachedItems)))

(* The statistics of a checklist of three items, two of them checked and one *)
(* with checked null: 66.67 per cent, and not completed                       *)
C36_Witness ==
    /\ built.stats.kind = "return" /\ built.is_completed.kind = "return"
    /\ Len(CachedItems) = 3 /\ CheckedCount = 2
    /\ \E i \in DOMAIN CachedItems :
          "checked" \in DOMAIN CachedItems[i] /\ CachedItems[i]["checked"] = {}
    /\ built.stats.value = [total |-> 3, completed |-> 2, percentage |-> 6667]
    /\ built.is_completed.value = FALSE

(* The class and the id with which a drawn domain object was constructed *)
SameClassAndId(x, y) ==
    /\ "cls" \in DOMAIN x /\ "cls" \in DOMAIN y
    /\ x.cls = y.cls /\ x._id = y._id

(* C37: == on domain objects is reflexive, symmetric and transitive, holds   *)
(* exactly between objects of the same class and id whatever data they       *)
(* cache, never holds with an object of another class or with a value that   *)
(* is no domain object, and objects that are equal have the same hash.       *)
C37_EqualityOnClassAndId ==
    /\ built.eq.kind = "return" =>
          LET r == built.eq.value
          IN  /\ r.aa
              /\ r.ab <=> r.ba
              /\ (r.ab /\ r.bc) => r.ac
              /\ r.ab <=> SameClassAndId(given.a, given.b)
              /\ r.bc <=> (given.b = given.c \/ SameClassAndId(given.b, given.c))
              /\ r.ac <=> SameClassAndId(given.a, given.c)
    /\ (built.eq.kind = "return" /\ built.hash.kind = "return") =>
          (built.eq.value.ab => built.hash.value.a = built.hash.value.b)

(* Two checklists of the same id caching different data were compared and    *)
(* hashed: equal, with one hash                                               *)
C37_Witness ==
    /\ built.eq.kind = "return" /\ built.hash.kind = "return"
    /\ given.a.cls = "Checklist" /\ given.a._id = {2}
    /\ IsKaitenObject(given.b) /\ given.b.cls = "Checklist" /\ given.b._id = {2}
    /\ given.a._data # given.b._data
    /\ built.eq.value.ab /\ built.hash.value.a = built.hash.value.b

====
